---- MODULE Spec2Model ----
(***************************************************************************)
(* State-machine model of the application supervisor:                      *)
(*   - AppInstaller  (src/app/services/github_client.py)                   *)
(*   - AppManager    (src/app/services/app_manager.py)                     *)
(*   - GitHubClient  (src/app/services/github_client.py)                   *)
(*   - ScriptExecutor (src/app/services/script_executor.py)                *)
(*   - the install/update/uninstall and execute-script routes              *)
(*     (src/app/routes/apps.py)                                            *)
(*                                                                         *)
(* A file name is the sequence of its dot-separated segments               *)
(* ("app.backup" is <<"app", "backup">>), so that Path.with_suffix is      *)
(* computed and not assumed.  A zip member name is the sequence of its     *)
(* "/"-separated components, as str.split("/") yields them ("w/" is        *)
(* <<"w", "">>).  All directories live under the one install root.         *)
(***************************************************************************)
EXTENDS Integers, Sequences, FiniteSets, TLC

VARIABLES
    fs,            \* install root: directory name -> [exists, files]
    instRes,       \* record of the last AppInstaller call
    active,        \* OS service manager: service unit -> is the unit active
    useSystemctl,  \* AppManager.use_systemctl, fixed at construction
    mgrRes,        \* record of the last AppManager call
    mgrPrev,       \* summary of the AppManager call before the last one
    db,            \* applications table: app id -> stored InstalledState
    reqRes,        \* record of the last route request
    isWindows,     \* ScriptExecutor._is_windows, the platform of the host
    execs,         \* script_executions table: row id -> row
    units,         \* background threads started by execute_async, in order
    scriptRes,     \* record of the last ScriptExecutor call or execute request
    sfs,           \* the host's file system as the executor sees it: path -> node
    relRes,        \* record of the last GitHubClient call
    relPrev,       \* summary of the GitHubClient call before the last one
    installs       \* AppInstaller.install calls in progress: caller -> state

scriptVars == <<isWindows, execs, units, scriptRes>>

clientVars == <<relRes, relPrev>>

vars ==
    <<fs, instRes, active, useSystemctl, mgrRes, mgrPrev, db, reqRes, scriptVars,
      sfs, clientVars, installs>>

----------------------------------------------------------------------------
(* File system values *)

Absent == [exists |-> FALSE, files |-> {}]

Dir(files) == [exists |-> TRUE, files |-> files]

File(name, data) == [name |-> name, data |-> data]

\* A previous installation containing file F, and what a crashed earlier
\* install may have left at a backup location.
OldTree == {File(<<"F">>, "old")}

StaleTree == {File(<<"S">>, "stale")}

----------------------------------------------------------------------------
(* Release data *)

\* zip archives: sequences of members in archive order
ArchWrapped ==
    << File(<<"w", "">>, "dir"), File(<<"w", "F">>, "zw"), File(<<"w", "G">>, "zw") >>

ArchFlat == << File(<<"F">>, "zf"), File(<<"w", "G">>, "zf") >>

Asset(name, archive) == [name |-> name, archive |-> archive]

NoAsset == Asset(<<>>, <<>>)

Release(tag, assets) == [tag_name |-> tag, assets |-> assets]

\* get_latest_release() returning None
NoRelease == Release("None", <<>>)

RelMulti ==
    Release("v2", << Asset(<<"readme", "txt">>, <<>>),
                     Asset(<<"pkg", "zip">>, ArchWrapped),
                     Asset(<<"alt", "zip">>, ArchFlat) >>)

RelFlat == Release("v3", << Asset(<<"pkg", "zip">>, ArchFlat) >>)

RelNoZip == Release("v4", << Asset(<<"readme", "txt">>, <<>>) >>)

Releases == {RelMulti, RelFlat, RelNoZip}

----------------------------------------------------------------------------
(* Paths *)

\* install_dir / app_id: the name of the directory under the install root
get_app_dir(app_id) == app_id

\* Path.with_suffix(".backup"): replaces the last dot-segment of the name
\* when the name has a suffix, appends one otherwise
with_suffix_backup(p) ==
    IF Len(p) >= 2 THEN SubSeq(p, 1, Len(p) - 1) \o <<"backup">>
                   ELSE p \o <<"backup">>

\* the configured app ids: "app" and "app.backup"
InstallIds == {<<"app">>, <<"app", "backup">>}

\* the directories of the install root the installer can touch
DirNames == InstallIds \cup {with_suffix_backup(get_app_dir(a)) : a \in InstallIds}

----------------------------------------------------------------------------
(* File-system primitives *)

exists(f, p) == f[p].exists

rmtree(f, p) == [f EXCEPT ![p] = Absent]

\* shutil.move(src, dst) onto a destination that does not exist: a rename.
\* A missing source makes it raise FileNotFoundError.
move_raises(f, src) == ~exists(f, src)

shutil_move(f, src, dst) ==
    IF move_raises(f, src) THEN f
    ELSE [f EXCEPT ![dst] = f[src], ![src] = Absent]

----------------------------------------------------------------------------
(* AppInstaller._find_zip_asset / _extract_zip *)

\* asset.name.endswith(".zip")
IsZipName(name) == Len(name) >= 2 /\ name[Len(name)] = "zip"

RECURSIVE FindFrom(_, _)
FindFrom(assets, i) ==
    IF i > Len(assets) THEN NoAsset
    ELSE IF IsZipName(assets[i].name) THEN assets[i]
    ELSE FindFrom(assets, i + 1)

RECURSIVE FindLastFrom(_, _)
FindLastFrom(assets, i) ==
    IF i < 1 THEN NoAsset
    ELSE IF IsZipName(assets[i].name) THEN assets[i]
    ELSE FindLastFrom(assets, i - 1)

find_zip_asset_last(release) == FindLastFrom(release.assets, Len(release.assets))

\* _find_zip_asset: the first asset whose name ends in ".zip", or None
find_zip_asset(release) == FindFrom(release.assets, 1)

\* name.startswith(root + "/")
StartsWithRoot(name, root) == Len(name) >= 2 /\ name[1] = root

\* all(name.startswith(names[0].split("/")[0] + "/") for name in names)
HasRootDir(archive) ==
    /\ archive # <<>>
    /\ \A i \in 1..Len(archive) : StartsWithRoot(archive[i].name, archive[1].name[1])

\* zip_ref.extract(member, dest_dir): writes the member, replacing a file of
\* the same name
extract(files, member) == {f \in files : f.name # member.name} \cup {member}

\* one iteration of the loop over infolist() when a root directory is present
ExtractStripped(files, member, root) ==
    IF StartsWithRoot(member.name, root) /\ Tail(member.name) # <<"">>
    THEN extract(files, File(Tail(member.name), member.data))
    ELSE files

RECURSIVE ExtractMembers(_, _, _, _)
ExtractMembers(files, archive, i, n) ==
    IF i > n THEN files
    ELSE ExtractMembers(
             IF HasRootDir(archive)
             THEN ExtractStripped(files, archive[i], archive[1].name[1])
             ELSE extract(files, archive[i]),
             archive, i + 1, n)

\* AppInstaller._extract_zip(zip_path, dest_dir) where `done` steps complete before an
\* exception: step 1 is dest_dir.mkdir(parents=True, exist_ok=True), steps
\* 2..Len+1 are the members in archive order.  done = Len(archive) + 1 is a
\* complete extraction.
ExtractSteps(archive) == Len(archive) + 1

extract_zip(f, archive, dest, done) ==
    IF done = 0 THEN f
    ELSE [f EXCEPT ![dest] =
             Dir(ExtractMembers(f[dest].files, archive, 1, done - 1))]

\* What a complete unpack of the archive into an empty directory holds
Payload(archive) == ExtractMembers({}, archive, 1, Len(archive))

----------------------------------------------------------------------------
(* AppInstaller.install / uninstall *)

\* Result of one AppInstaller call.
\*   raised:  "none", "GitHubClientError" (the typed error) or
\*            "FileNotFoundError" (an exception that is not the typed error)
\*   stage:   how far the call got: "release", "asset", "backup", "download",
\*            "unpack", "done"
\*   value:   the returned tag
\*   release: the release the call worked on (the argument, or the latest)
\*   preD, preB: the install directory and the backup location before the call
\*   downloaded: the name of the asset handed to download_asset, <<>> when
\*            no download was attempted
\*   current, returned: the current_version argument of check_update and the
\*            release it returned (NoRelease for None)
InstRes(op, app_id, raised, stage, value, release, f) ==
    [op |-> op, app_id |-> app_id, raised |-> raised, stage |-> stage,
     value |-> value, release |-> release,
     preD |-> f[get_app_dir(app_id)],
     preB |-> f[with_suffix_backup(get_app_dir(app_id))],
     downloaded |-> <<>>, current |-> "None", returned |-> NoRelease]

NoInstRes ==
    [op |-> "none", app_id |-> <<>>, raised |-> "none", stage |-> "none",
     value |-> "", release |-> NoRelease, preD |-> Absent, preB |-> Absent,
     downloaded |-> <<>>, current |-> "None", returned |-> NoRelease]

check_update_ignores_current(latest, current_version) ==
    LET R(raised, returned) ==
            [NoInstRes EXCEPT !.op = "check_update", !.raised = raised,
                              !.release = latest.release,
                              !.current = current_version, !.returned = returned]
    IN  IF ~latest.ok THEN R("GitHubClientError", NoRelease)
        ELSE R("none", latest.release)

\* check_update(owner, repo, current_version)
\*   latest:  what get_latest_release answers: [ok, release]
\*   current_version: a tag, or "None"
check_update(latest, current_version) ==
    LET R(raised, returned) ==
            [NoInstRes EXCEPT !.op = "check_update", !.raised = raised,
                              !.release = latest.release,
                              !.current = current_version, !.returned = returned]
    IN  IF ~latest.ok THEN R("GitHubClientError", NoRelease)
        ELSE IF latest.release = NoRelease THEN R("none", NoRelease)
        ELSE IF current_version = "None" THEN R("none", latest.release)
        ELSE IF latest.release.tag_name # current_version THEN R("none", latest.release)
        ELSE R("none", NoRelease)

\* lines 255-261: back up the existing installation
\*   backup_dir is set only when app_dir exists
BackupMade(f, app_dir) == exists(f, app_dir)

BackupStep(f, app_dir) ==
    LET backup_dir == with_suffix_backup(app_dir)
        cleared == IF exists(f, backup_dir) THEN rmtree(f, backup_dir) ELSE f
    IN  IF ~BackupMade(f, app_dir) THEN f
        ELSE shutil_move(cleared, app_dir, backup_dir)

BackupRaises(f, app_dir) ==
    LET backup_dir == with_suffix_backup(app_dir)
        cleared == IF exists(f, backup_dir) THEN rmtree(f, backup_dir) ELSE f
    IN  BackupMade(f, app_dir) /\ move_raises(cleared, app_dir)

CommitStepKeepsBackup(f, app_dir, made) == f

\* lines 279-281: on success delete the backup this call made
CommitStep(f, app_dir, made) ==
    LET backup_dir == with_suffix_backup(app_dir)
    IN  IF made /\ exists(f, backup_dir) THEN rmtree(f, backup_dir) ELSE f

RollbackStepNoRestore(f, app_dir, made) ==
    LET backup_dir == with_suffix_backup(app_dir)
    IN  IF made /\ exists(f, backup_dir) /\ exists(f, app_dir)
        THEN rmtree(f, app_dir)
        ELSE f

\* lines 288-293: on an exception restore from the backup this call made
RollbackStep(f, app_dir, made) ==
    LET backup_dir == with_suffix_backup(app_dir)
        cleared == IF exists(f, app_dir) THEN rmtree(f, app_dir) ELSE f
    IN  IF made /\ exists(f, backup_dir)
        THEN shutil_move(cleared, backup_dir, app_dir)
        ELSE f

\* lines 243-244: the release argument, or the latest release when omitted
ChosenRelease(release, latest) ==
    IF release = NoRelease THEN latest.release ELSE release

\* install(owner, repo, app_id, release=None)
\*   release:  the release argument, NoRelease when omitted
\*   latest:   what get_latest_release answers: [ok, release]
\*   dl_ok:    download_asset returns (TRUE) or raises (FALSE)
\*   done:     steps of _extract_zip that complete
\* Yields [fs, res].

install(f, app_id, release, latest, dl_ok, done) ==
    LET rel      == ChosenRelease(release, latest)
        asset    == find_zip_asset(rel)
        app_dir  == get_app_dir(app_id)
        made     == BackupMade(f, app_dir)
        f1       == BackupStep(f, app_dir)
        f2       == extract_zip(f1, asset.archive, app_dir, done)
        R(raised, stage, value) ==
            InstRes("install", app_id, raised, stage, value, rel, f)
        D(res)   == [res EXCEPT !.downloaded = asset.name]
    IN  IF release = NoRelease /\ ~latest.ok
        THEN [fs |-> f, res |-> R("GitHubClientError", "release", "")]
        ELSE IF rel = NoRelease
        THEN [fs |-> f, res |-> R("GitHubClientError", "release", "")]
        ELSE IF asset = NoAsset
        THEN [fs |-> f, res |-> R("GitHubClientError", "asset", "")]
        ELSE IF BackupRaises(f, app_dir)
        THEN [fs |-> rmtree(f, with_suffix_backup(app_dir)),
              res |-> R("FileNotFoundError", "backup", "")]
        ELSE IF ~dl_ok
        THEN [fs |-> RollbackStep(f1, app_dir, made),
              res |-> D(R("GitHubClientError", "download", ""))]
        ELSE IF done < ExtractSteps(asset.archive)
        THEN [fs |-> RollbackStep(f2, app_dir, made),
              res |-> D(R("GitHubClientError", "unpack", ""))]
        ELSE [fs |-> CommitStep(f2, app_dir, made),
              res |-> D(R("none", "done", rel.tag_name))]

uninstall_keeps_backup(f, app_id) ==
    LET app_dir == get_app_dir(app_id)
        R(raised, stage) ==
            InstRes("uninstall", app_id, raised, stage, "", NoRelease, f)
    IN  IF ~exists(f, app_dir)
        THEN [fs |-> f, res |-> R("GitHubClientError", "missing")]
        ELSE [fs |-> shutil_move(f, app_dir, with_suffix_backup(app_dir)),
              res |-> R("none", "done")]

\* uninstall(app_id)
uninstall(f, app_id) ==
    LET app_dir == get_app_dir(app_id)
        R(raised, stage) ==
            InstRes("uninstall", app_id, raised, stage, "", NoRelease, f)
    IN  IF ~exists(f, app_dir)
        THEN [fs |-> f, res |-> R("GitHubClientError", "missing")]
        ELSE [fs |-> rmtree(f, app_dir), res |-> R("none", "done")]

----------------------------------------------------------------------------
(* AppManager *)

\* applications table: the configured apps, their service unit and their
\* stored health_check_path ("None" when no probe path is configured)
KnownApps == InstallIds

AppIds == KnownApps \cup {<<"ghost">>}

ServiceName(app_id) == IF app_id = <<"app">> THEN "svc1" ELSE "svc2"

Units == {ServiceName(a) : a \in KnownApps}

StoredHealthPath(app_id) == IF app_id = <<"app">> THEN "None" ELSE "/ready"

\* _get_app_manager: health_check_path=app.health_check_path or "/health"
AppConfig(app_id) ==
    [id |-> app_id,
     service_name |-> ServiceName(app_id),
     health_check_path |->
         IF StoredHealthPath(app_id) = "None" THEN "/health"
         ELSE StoredHealthPath(app_id)]

get_app_found_any(app_id) == TRUE

\* self.apps.get(app_id) is not None
get_app_found(app_id) == app_id \in KnownApps

\* Ways `systemctl is-active` can end: an exit code, or an exception of
\* subprocess.run
QueryOutcomes ==
    {"exit0", "exit3", "TimeoutExpired", "FileNotFoundError", "PermissionError"}

\* the exit code systemctl gives follows the unit's state
QueryPossible(q, unit_active) ==
    /\ q = "exit0" => unit_active
    /\ q = "exit3" => ~unit_active

\* Ways `systemctl start|stop|restart` can end
RunOutcomes == {"exit0", "CalledProcessError", "TimeoutExpired", "PermissionError"}

\* Ways the GET on the health URL can end: a status without exception
\* (urlopen raises HTTPError for 4xx/5xx), or an exception of urlopen
ProbeOutcomes ==
    {"200", "204", "HTTPError", "URLError", "TimeoutError", "RemoteDisconnected"}

check_service_active_ignores_mode(use, service_name, q) ==
    LET calls == << <<"is-active", service_name>> >>
    IN  IF q \in {"exit0", "exit3"}
        THEN [raised |-> "none", value |-> (q = "exit0"), calls |-> calls]
        ELSE IF q \in {"TimeoutExpired", "FileNotFoundError"}
        THEN [raised |-> "none", value |-> FALSE, calls |-> calls]
        ELSE [raised |-> q, value |-> FALSE, calls |-> calls]

\* _check_service_active: [raised, value, calls]
check_service_active(use, service_name, q) ==
    IF ~use THEN [raised |-> "none", value |-> FALSE, calls |-> <<>>]
    ELSE LET calls == << <<"is-active", service_name>> >>
         IN  IF q \in {"exit0", "exit3"}
             THEN [raised |-> "none", value |-> (q = "exit0"), calls |-> calls]
             ELSE IF q \in {"TimeoutExpired", "FileNotFoundError"}
             THEN [raised |-> "none", value |-> FALSE, calls |-> calls]
             ELSE [raised |-> q, value |-> FALSE, calls |-> calls]

\* _check_health: [raised, value, probes]; value is "True" or "False"
check_health(app, h) ==
    LET probes == << app.health_check_path >>
    IN  IF h \in {"200", "204"}
        THEN [raised |-> "none", value |-> IF h = "200" THEN "True" ELSE "False",
              probes |-> probes]
        ELSE IF h \in {"HTTPError", "URLError", "TimeoutError"}
        THEN [raised |-> "none", value |-> "False", probes |-> probes]
        ELSE [raised |-> h, value |-> "None", probes |-> probes]

determine_status_inverted(service_active, health_check_ok) ==
    IF service_active THEN "stopped"
    ELSE IF health_check_ok = "None" THEN "running"
    ELSE IF health_check_ok = "True" THEN "running"
    ELSE "error"

\* _determine_status
determine_status(service_active, health_check_ok) ==
    IF ~service_active THEN "stopped"
    ELSE IF health_check_ok = "None" THEN "running"
    ELSE IF health_check_ok = "True" THEN "running"
    ELSE "error"

\* Record of one AppManager call.  req_* are the arguments and the inputs of
\* the call, the other fields are what the call gave back:
\*   raised          "none" or the exception that escaped the call
\*   status, service_active, health_check_ok, error_message   AppState
\*   success, operation, app_id, message                       OperationResult
\*   calls           systemctl commands issued, in order
\*   probes          health URLs requested, in order
MgrRes(op, app_id, q, h, r, was_active) ==
    [op |-> op, req_app |-> app_id, req_q |-> q, req_h |-> h, req_r |-> r,
     was_active |-> was_active,
     raised |-> "none", status |-> "none", service_active |-> FALSE,
     health_check_ok |-> "None", error_message |-> "None",
     success |-> FALSE, operation |-> "none", app_id |-> <<>>,
     message |-> "none", calls |-> <<>>, probes |-> <<>>]

NoMgrRes == MgrRes("none", <<>>, "none", "none", "none", FALSE)

\* what is remembered of a call once the next call is made
MgrPrev(res) ==
    [op |-> res.op, req_app |-> res.req_app, raised |-> res.raised,
     success |-> res.success]

NoMgrPrev == MgrPrev(NoMgrRes)

\* get_status(app_id) with the query ending as q and the probe as h
get_status(use, app_id, q, h, was_active) ==
    LET base == MgrRes("get_status", app_id, q, h, "none", was_active)
        app  == AppConfig(app_id)
        sa   == check_service_active(use, app.service_name, q)
        hc   == check_health(app, h)
    IN  IF ~get_app_found(app_id)
        THEN [base EXCEPT !.app_id = app_id, !.status = "unknown",
                          !.error_message = "not_found"]
        ELSE IF sa.raised # "none"
        THEN [base EXCEPT !.raised = sa.raised, !.calls = sa.calls]
        ELSE IF ~sa.value
        THEN [base EXCEPT !.app_id = app_id, !.calls = sa.calls,
                          !.status = determine_status(FALSE, "None")]
        ELSE IF hc.raised # "none"
        THEN [base EXCEPT !.raised = hc.raised, !.calls = sa.calls,
                          !.probes = hc.probes]
        ELSE [base EXCEPT !.app_id = app_id, !.calls = sa.calls,
                          !.probes = hc.probes, !.service_active = TRUE,
                          !.health_check_ok = hc.value,
                          !.status = determine_status(TRUE, hc.value)]

execute_operation_narrow(use, app_id, operation, r, was_active) ==
    LET base == MgrRes(operation, app_id, "none", "none", r, was_active)
        app  == AppConfig(app_id)
        res  == [base EXCEPT !.operation = operation, !.app_id = app_id]
        ran  == [res EXCEPT !.calls = << <<operation, app.service_name>> >>]
    IN  IF ~get_app_found(app_id)
        THEN [res EXCEPT !.message = "not_found"]
        ELSE IF ~use
        THEN [res EXCEPT !.success = TRUE, !.message = "completed"]
        ELSE IF r = "exit0"
        THEN [ran EXCEPT !.success = TRUE, !.message = "completed"]
        ELSE IF r = "CalledProcessError"
        THEN [ran EXCEPT !.message = "systemctl_failed"]
        ELSE [base EXCEPT !.raised = r, !.calls = ran.calls]

\* _execute_operation(app_id, operation) with systemctl ending as r
execute_operation(use, app_id, operation, r, was_active) ==
    LET base == MgrRes(operation, app_id, "none", "none", r, was_active)
        app  == AppConfig(app_id)
        res  == [base EXCEPT !.operation = operation, !.app_id = app_id]
        ran  == [res EXCEPT !.calls = << <<operation, app.service_name>> >>]
    IN  IF ~get_app_found(app_id)
        THEN [res EXCEPT !.message = "not_found"]
        ELSE IF ~use
        THEN [res EXCEPT !.success = TRUE, !.message = "completed"]
        ELSE IF r = "exit0"
        THEN [ran EXCEPT !.success = TRUE, !.message = "completed"]
        ELSE IF r = "CalledProcessError"
        THEN [ran EXCEPT !.message = "systemctl_failed"]
        ELSE [ran EXCEPT !.message = "unexpected_error"]

\* What the unit is after the systemctl command: the command's effect when
\* it exits 0, either state when it failed or timed out
UnitAfter(operation, r, before) ==
    IF r = "exit0" THEN {operation # "stop"} ELSE {before, operation # "stop"}

----------------------------------------------------------------------------
(* Routes api_install, api_update, api_uninstall *)

\* stored InstalledState of one application row
InstalledState(installed, version, at) ==
    [installed |-> installed, installed_version |-> version, installed_at |-> at]

\* load_applications: installed=False, installed_version=None, installed_at=None
NotInstalled == InstalledState(FALSE, "None", "None")

\* api_install lines 270-273: the row written after installer.install
\* returned the tag `version`
installed_row(row, version) ==
    [row EXCEPT !.installed = TRUE, !.installed_version = version,
                !.installed_at = "now"]

\* the row api_update would write if it kept the version it had read
updated_row_keeps_version(row, version) ==
    [row EXCEPT !.installed_at = "now"]

\* api_update lines 329-331: installed is left as it was read
updated_row(row, version) ==
    [row EXCEPT !.installed_version = version, !.installed_at = "now"]

\* the row api_uninstall would write if it only cleared the flag
uninstalled_row_keeps_version(row) ==
    [row EXCEPT !.installed = FALSE]

\* api_uninstall lines 384-387
uninstalled_row(row) ==
    [row EXCEPT !.installed = FALSE, !.installed_version = "None",
                !.installed_at = "None"]

\* Record of one request.
\*   http            response status; 0 when an exception left the handler
\*   success, message, version   the JSON body
\*   pre_db          the app's stored state when the request began
\*   was_active      the unit's state when the request began
\*   stop_issued, start_issued   manager.stop / manager.start were called
\*   install_entered, active_at_install   installer.install was called, and
\*                   the unit's state at that moment
ReqRes(route, app_id, pre_db, was_active) ==
    [route |-> route, app_id |-> app_id, http |-> 200, success |-> FALSE,
     message |-> "none", version |-> "None", pre_db |-> pre_db,
     was_active |-> was_active, stop_issued |-> FALSE, start_issued |-> FALSE,
     install_entered |-> FALSE, active_at_install |-> FALSE]

NoReqRes == ReqRes("none", <<>>, NotInstalled, FALSE)

\* the ids requests are made for
RouteIds == {<<"app">>, <<"ghost">>}

\* db.get_application(app_id) is not None
db_found(app_id) == app_id \in KnownApps

StoredState(d, app_id) == IF db_found(app_id) THEN d[app_id] ELSE NotInstalled

UnitActive(act, app_id) == db_found(app_id) /\ act[ServiceName(app_id)]

\* lines 321-323 / 380-382: manager.get_status(app_id).service_active, then
\* manager.stop(app_id), whose result is not looked at.
\* s holds the request's app_id and the inputs q, h, r_stop, a_stop.
\* Yields [raised, stop_issued, active].
StopFirst(act, use, s) ==
    LET app_id == s.app_id
        st   == get_status(use, app_id, s.q, s.h, UnitActive(act, app_id))
        stop == execute_operation(use, app_id, "stop", s.r_stop, UnitActive(act, app_id))
        a_stop == s.a_stop
    IN  IF st.raised # "none"
        THEN [raised |-> st.raised, stop_issued |-> FALSE, active |-> act]
        ELSE IF ~st.service_active
        THEN [raised |-> "none", stop_issued |-> FALSE, active |-> act]
        ELSE [raised |-> "none", stop_issued |-> TRUE,
              active |-> IF stop.calls = <<>> THEN act
                         ELSE [act EXCEPT ![ServiceName(app_id)] = a_stop]]

\* _get_installer() followed by installer.install(owner, repo, app_id):
\* without a token _get_installer raises the typed error
RouteInstall(f, app_id, tok, latest, dl_ok, done) ==
    IF ~tok
    THEN [fs |-> f,
          res |-> InstRes("install", app_id, "GitHubClientError", "token", "",
                          NoRelease, f)]
    ELSE install(f, app_id, NoRelease, latest, dl_ok, done)

\* api_install with the inputs i of the install.  Yields [fs, db, res].
api_install(f, d, act, app_id, i) ==
    LET base == ReqRes("install", app_id, StoredState(d, app_id),
                       UnitActive(act, app_id))
        inst == RouteInstall(f, app_id, i.tok, i.latest, i.dl_ok, i.done)
        entered == [base EXCEPT !.install_entered = i.tok,
                                !.active_at_install = i.tok /\ UnitActive(act, app_id)]
    IN  IF ~db_found(app_id)
        THEN [fs |-> f, db |-> d,
              res |-> [base EXCEPT !.http = 404, !.message = "not_found"]]
        ELSE IF d[app_id].installed
        THEN [fs |-> f, db |-> d,
              res |-> [base EXCEPT !.message = "already_installed"]]
        ELSE IF inst.res.raised = "GitHubClientError"
        THEN [fs |-> inst.fs, db |-> d,
              res |-> [entered EXCEPT !.http = 500, !.message = inst.res.stage]]
        ELSE IF inst.res.raised # "none"
        THEN [fs |-> inst.fs, db |-> d,
              res |-> [entered EXCEPT !.http = 0, !.message = inst.res.raised]]
        ELSE [fs |-> inst.fs,
              db |-> [d EXCEPT ![app_id] = installed_row(d[app_id], inst.res.value)],
              res |-> [entered EXCEPT !.success = TRUE, !.message = "installed",
                                      !.version = inst.res.value]]

\* api_update with the inputs s of the status query and the stop, i of the
\* install and t of the start.  Yields [fs, db, active, res].
api_update(f, d, act, use, s, i, t) ==
    LET app_id == s.app_id
        base == ReqRes("update", app_id, StoredState(d, app_id),
                       UnitActive(act, app_id))
        sf   == StopFirst(act, use, s)
        stopped == [base EXCEPT !.stop_issued = sf.stop_issued]
        inst == RouteInstall(f, app_id, i.tok, i.latest, i.dl_ok, i.done)
        entered == [stopped EXCEPT !.install_entered = i.tok,
                        !.active_at_install = i.tok /\ UnitActive(sf.active, app_id)]
        start == execute_operation(use, app_id, "start", t.r_start,
                                   UnitActive(sf.active, app_id))
        a_start == t.a_start
    IN  IF ~db_found(app_id)
        THEN [fs |-> f, db |-> d, active |-> act,
              res |-> [base EXCEPT !.http = 404, !.message = "not_found"]]
        ELSE IF ~d[app_id].installed
        THEN [fs |-> f, db |-> d, active |-> act,
              res |-> [base EXCEPT !.message = "not_installed"]]
        ELSE IF sf.raised # "none"
        THEN [fs |-> f, db |-> d, active |-> act,
              res |-> [base EXCEPT !.http = 0, !.message = sf.raised]]
        ELSE IF inst.res.raised = "GitHubClientError"
        THEN [fs |-> inst.fs, db |-> d, active |-> sf.active,
              res |-> [entered EXCEPT !.http = 500, !.message = inst.res.stage]]
        ELSE IF inst.res.raised # "none"
        THEN [fs |-> inst.fs, db |-> d, active |-> sf.active,
              res |-> [entered EXCEPT !.http = 0, !.message = inst.res.raised]]
        ELSE [fs |-> inst.fs,
              db |-> [d EXCEPT ![app_id] = updated_row(d[app_id], inst.res.value)],
              active |-> IF start.calls = <<>> THEN sf.active
                         ELSE [sf.active EXCEPT ![ServiceName(app_id)] = a_start],
              res |-> [entered EXCEPT !.success = TRUE, !.message = "updated",
                                      !.version = inst.res.value,
                                      !.start_issued = TRUE]]

\* api_uninstall with the inputs s of the status query and the stop.
\* Yields [fs, db, active, res].
api_uninstall(f, d, act, use, s, tok) ==
    LET app_id == s.app_id
        base == ReqRes("uninstall", app_id, StoredState(d, app_id),
                       UnitActive(act, app_id))
        sf   == StopFirst(act, use, s)
        stopped == [base EXCEPT !.stop_issued = sf.stop_issued]
        un   == uninstall(f, app_id)
    IN  IF ~db_found(app_id)
        THEN [fs |-> f, db |-> d, active |-> act,
              res |-> [base EXCEPT !.http = 404, !.message = "not_found"]]
        ELSE IF ~d[app_id].installed
        THEN [fs |-> f, db |-> d, active |-> act,
              res |-> [base EXCEPT !.message = "not_installed"]]
        ELSE IF sf.raised # "none"
        THEN [fs |-> f, db |-> d, active |-> act,
              res |-> [base EXCEPT !.http = 0, !.message = sf.raised]]
        ELSE IF ~tok
        THEN [fs |-> f, db |-> d, active |-> sf.active,
              res |-> [stopped EXCEPT !.http = 500, !.message = "token"]]
        ELSE IF un.res.raised # "none"
        THEN [fs |-> un.fs, db |-> d, active |-> sf.active,
              res |-> [stopped EXCEPT !.http = 500, !.message = un.res.stage]]
        ELSE [fs |-> un.fs,
              db |-> [d EXCEPT ![app_id] = uninstalled_row(d[app_id])],
              active |-> sf.active,
              res |-> [stopped EXCEPT !.success = TRUE, !.message = "uninstalled"]]

----------------------------------------------------------------------------
(* ScriptExecutor: paths and validate_script *)

\* A path component is the sequence of its dot-separated segments; a path is
\* the sequence of its components.  ".." is the parent component.
DotDot == <<"..">>

\* a stored script_path: absolute or relative, and its components; the empty
\* string has no components and is not absolute
StoredPath(abs, parts) == [abs |-> abs, parts |-> parts]

EmptyPath == StoredPath(FALSE, <<>>)

AppsDir == << <<"apps">> >>

ProjDir == << <<"proj">> >>

EtcDir == << <<"etc">> >>

\* the working directory a relative path is resolved against
Cwd == ProjDir

Node(kind, target) == [kind |-> kind, target |-> target]

NoNode == Node("none", <<>>)

\* The host's files: regular files, directories and symbolic links (whose
\* targets are canonical absolute paths).
ScriptFs ==
    (AppsDir :> Node("dir", <<>>))
    @@ (ProjDir :> Node("dir", <<>>))
    @@ (EtcDir :> Node("dir", <<>>))
    @@ (Append(AppsDir, <<"run", "sh">>) :> Node("file", <<>>))
    @@ (Append(AppsDir, <<"run", "SH">>) :> Node("file", <<>>))
    @@ (Append(AppsDir, <<"run", "py">>) :> Node("file", <<>>))
    @@ (Append(AppsDir, <<"run", "bat">>) :> Node("file", <<>>))
    @@ (Append(AppsDir, <<"d", "sh">>) :> Node("dir", <<>>))
    @@ (Append(AppsDir, <<"out", "sh">>) :> Node("link", Append(EtcDir, <<"evil", "sh">>)))
    @@ (Append(AppsDir, <<"sub">>) :> Node("link", EtcDir))
    @@ (Append(EtcDir, <<"evil", "sh">>) :> Node("file", <<>>))
    @@ (Append(ProjDir, <<"job", "sh">>) :> Node("file", <<>>))

NodeAt(sf, p) == IF p \in DOMAIN sf THEN sf[p] ELSE NoNode

\* the script_path values scripts are stored with
ScriptPaths ==
    { EmptyPath,
      StoredPath(TRUE, Append(AppsDir, <<"run", "sh">>)),
      StoredPath(TRUE, Append(AppsDir, <<"run", "SH">>)),
      StoredPath(TRUE, Append(AppsDir, <<"run", "py">>)),
      StoredPath(TRUE, Append(AppsDir, <<"run", "bat">>)),
      StoredPath(TRUE, Append(AppsDir, <<"missing", "sh">>)),
      StoredPath(TRUE, Append(AppsDir, <<"d", "sh">>)),
      StoredPath(TRUE, Append(AppsDir, <<"out", "sh">>)),
      StoredPath(TRUE, AppsDir \o << DotDot, <<"etc">>, <<"evil", "sh">> >>),
      StoredPath(TRUE, AppsDir \o << <<"sub">>, <<"evil", "sh">> >>),
      StoredPath(TRUE, Append(EtcDir, <<"evil", "sh">>)),
      StoredPath(TRUE, EtcDir \o << DotDot, <<"apps">>, <<"run", "sh">> >>),
      StoredPath(FALSE, << <<"job", "sh">> >>),
      StoredPath(FALSE, << DotDot, <<"etc">>, <<"evil", "sh">> >>) }

\* Path(script_path).resolve(): made absolute against the working directory,
\* ".." removed against the path resolved so far, symbolic links followed
RECURSIVE ResolveFrom(_, _, _, _)
ResolveFrom(sf, cur, parts, i) ==
    IF i > Len(parts) THEN cur
    ELSE LET c    == parts[i]
             down == Append(cur, c)
             next == IF c = DotDot
                     THEN (IF cur = <<>> THEN <<>> ELSE SubSeq(cur, 1, Len(cur) - 1))
                     ELSE IF NodeAt(sf, down).kind = "link"
                     THEN NodeAt(sf, down).target
                     ELSE down
         IN  ResolveFrom(sf, next, parts, i + 1)

resolve(sf, path) ==
    ResolveFrom(sf, IF path.abs THEN <<>> ELSE Cwd, path.parts, 1)

\* Path.suffix: the last dot-segment of the final component, "" when the
\* name has no dot or only a leading one
suffix(p) ==
    IF p = <<>> THEN ""
    ELSE LET name == p[Len(p)]
         IN  IF Len(name) >= 2 /\ ~(Len(name) = 2 /\ name[1] = "")
             THEN name[Len(name)]
             ELSE ""

\* str.lower() on the extensions that occur
lower(s) ==
    IF s = "SH" THEN "sh"
    ELSE IF s = "BAT" THEN "bat"
    ELSE IF s = "CMD" THEN "cmd"
    ELSE s

ALLOWED_EXTENSIONS_WINDOWS == {"bat", "cmd"}

ALLOWED_EXTENSIONS_LINUX == {"sh"}

\* _get_script_executor: the install root and the project root, resolved
allowed_base_dirs == <<AppsDir, ProjDir>>

\* script_path.relative_to(base_dir) does not raise
relative_to_ok(p, base) == Len(p) >= Len(base) /\ SubSeq(p, 1, Len(base)) = base

is_in_allowed_dirs(p) ==
    \E i \in 1..Len(allowed_base_dirs) : relative_to_ok(p, allowed_base_dirs[i])

\* an AppScript row
AppScript(id, path, mode, timeout, enabled) ==
    [id |-> id, script_path |-> path, mode |-> mode, timeout |-> timeout,
     enabled |-> enabled]

NoScript == AppScript("none", EmptyPath, "sync", 0, FALSE)

validate_script_unresolved(sf, is_windows, script) ==
    LET script_path == resolve(sf, script.script_path)
        allowed_ext == IF is_windows THEN ALLOWED_EXTENSIONS_WINDOWS
                                     ELSE ALLOWED_EXTENSIONS_LINUX
    IN  IF script.script_path = EmptyPath
        THEN [ok |-> FALSE, reason |-> "empty"]
        ELSE IF lower(suffix(script_path)) \notin allowed_ext
        THEN [ok |-> FALSE, reason |-> "extension"]
        ELSE IF ~is_in_allowed_dirs(
                    IF script.script_path.abs THEN script.script_path.parts
                    ELSE Cwd \o script.script_path.parts)
        THEN [ok |-> FALSE, reason |-> "outside"]
        ELSE IF NodeAt(sf, script_path).kind = "none"
        THEN [ok |-> FALSE, reason |-> "missing"]
        ELSE IF NodeAt(sf, script_path).kind # "file"
        THEN [ok |-> FALSE, reason |-> "not_file"]
        ELSE [ok |-> TRUE, reason |-> ""]

\* validate_script(script): (valid, error message)
validate_script(sf, is_windows, script) ==
    LET script_path == resolve(sf, script.script_path)
        allowed_ext == IF is_windows THEN ALLOWED_EXTENSIONS_WINDOWS
                                     ELSE ALLOWED_EXTENSIONS_LINUX
    IN  IF script.script_path = EmptyPath
        THEN [ok |-> FALSE, reason |-> "empty"]
        ELSE IF lower(suffix(script_path)) \notin allowed_ext
        THEN [ok |-> FALSE, reason |-> "extension"]
        ELSE IF ~is_in_allowed_dirs(script_path)
        THEN [ok |-> FALSE, reason |-> "outside"]
        ELSE IF NodeAt(sf, script_path).kind = "none"
        THEN [ok |-> FALSE, reason |-> "missing"]
        ELSE IF NodeAt(sf, script_path).kind # "file"
        THEN [ok |-> FALSE, reason |-> "not_file"]
        ELSE [ok |-> TRUE, reason |-> ""]

----------------------------------------------------------------------------
(* ScriptExecutor: execute_sync and _run_async *)

\* A text value: None, a captured output (its content tag and its length), or
\* an error message built by the executor.
Text(kind, tag, len) == [kind |-> kind, tag |-> tag, len |-> len, truncated |-> FALSE]

None == Text("None", "", 0)

Output(tag, len) == Text("output", tag, len)

\* f"タイムアウト ({script.timeout}秒)" and f"実行エラー: {e}"
TimeoutMessage(timeout) == Text("timeout_message", "", timeout)

ErrorMessage == Text("error_message", "", 1)

\* Python truthiness of an optional string
Truthy(t) == t.kind # "None" /\ t.len > 0

\* "タイムアウト" in error_message
HasTimeoutIndicator(t) == t.kind = "timeout_message"

MAX_OUTPUT_SIZE == 64 * 1024

\* len("\n... (truncated)")
MarkerLen == 16

\* _truncate_output with the limit itself counted as too long
truncate_output_inclusive(output) ==
    IF output = None THEN None
    ELSE IF output.len >= MAX_OUTPUT_SIZE
    THEN [output EXCEPT !.len = MAX_OUTPUT_SIZE + MarkerLen, !.truncated = TRUE]
    ELSE output

\* _truncate_output: a text with truncated = TRUE is the first
\* len - MarkerLen units of the captured output followed by the marker
truncate_output(output) ==
    IF output = None THEN None
    ELSE IF output.len > MAX_OUTPUT_SIZE
    THEN [output EXCEPT !.len = MAX_OUTPUT_SIZE + MarkerLen, !.truncated = TRUE]
    ELSE output

\* exit_code=None
NoExitCode == -1000

\* How subprocess.run(cmd, capture_output=True, text=True, timeout=...) ends:
\* the process exits, or run raises TimeoutExpired, an OSError (the
\* interpreter cannot be spawned) or UnicodeDecodeError (the captured bytes
\* are not text in the locale's encoding)
Exit(code, out, err) == [kind |-> "exit", code |-> code, stdout |-> out, stderr |-> err]

Raises(kind) == [kind |-> kind, code |-> NoExitCode, stdout |-> None, stderr |-> None]

NotRun == Raises("none")

SubprocessOutcomes ==
    { Exit(0, Output("a", 10), Output("", 0)),
      Exit(7, Output("b", 10), Output("e", 10)),
      Exit(0, Output("big", 70000), Output("", 0)),
      Raises("TimeoutExpired"), Raises("OSError"), Raises("UnicodeDecodeError") }

\* _build_command
build_command(is_windows, script_path) ==
    IF is_windows THEN <<"cmd", "/c", script_path>> ELSE <<"bash", script_path>>

\* ScriptExecutionResult
ScriptExecutionResult(success, exit_code, stdout, stderr, error_message) ==
    [success |-> success, exit_code |-> exit_code, stdout |-> stdout,
     stderr |-> stderr, error_message |-> error_message]

NoResult == ScriptExecutionResult(FALSE, NoExitCode, None, None, None)

execute_sync_unvalidated(sf, is_windows, script, o) ==
    LET cmd == build_command(is_windows, resolve(sf, script.script_path))
        R(raised, result) == [raised |-> raised, result |-> result, spawned |-> <<cmd>>]
    IN  IF o.kind = "exit"
        THEN R("none", ScriptExecutionResult(o.code = 0, o.code,
                           truncate_output(o.stdout), truncate_output(o.stderr), None))
        ELSE IF o.kind = "TimeoutExpired"
        THEN R("none", ScriptExecutionResult(FALSE, NoExitCode, None, None,
                           TimeoutMessage(script.timeout)))
        ELSE IF o.kind = "OSError"
        THEN R("none", ScriptExecutionResult(FALSE, NoExitCode, None, None, ErrorMessage))
        ELSE R(o.kind, NoResult)

\* execute_sync(script) with subprocess.run ending as o.
\* Yields [raised, result, spawned]: spawned lists the commands handed to
\* subprocess.run.
execute_sync(sf, is_windows, script, o) ==
    LET v   == validate_script(sf, is_windows, script)
        cmd == build_command(is_windows, resolve(sf, script.script_path))
        R(raised, result) == [raised |-> raised, result |-> result, spawned |-> <<cmd>>]
    IN  IF ~v.ok
        THEN [raised |-> "none", spawned |-> <<>>,
              result |-> ScriptExecutionResult(FALSE, NoExitCode, None, None,
                             Text("validation_message", v.reason, 1))]
        ELSE IF o.kind = "exit"
        THEN R("none", ScriptExecutionResult(o.code = 0, o.code,
                           truncate_output(o.stdout), truncate_output(o.stderr), None))
        ELSE IF o.kind = "TimeoutExpired"
        THEN R("none", ScriptExecutionResult(FALSE, NoExitCode, None, None,
                           TimeoutMessage(script.timeout)))
        ELSE IF o.kind = "OSError"
        THEN R("none", ScriptExecutionResult(FALSE, NoExitCode, None, None, ErrorMessage))
        ELSE R(o.kind, NoResult)

\* a script_executions row; writes counts the UPDATEs applied to the row
ScriptExecution(script_id, mode) ==
    [script_id |-> script_id, mode |-> mode, status |-> "running",
     exit_code |-> NoExitCode, stdout |-> None, stderr |-> None,
     finished_at |-> "None", writes |-> 0]

TerminalStatuses == {"completed", "failed", "timeout"}

\* create_script_execution: INSERT, the new row id is the next integer
create_script_execution(rows, execution) == Append(rows, execution)

\* get_script_execution(execution_id) is not None
execution_found(rows, execution_id) == execution_id \in DOMAIN rows

update_script_execution_all_rows(rows, execution_id, execution) ==
    [i \in DOMAIN rows |->
        [rows[i] EXCEPT !.status = execution.status,
                        !.exit_code = execution.exit_code,
                        !.stdout = execution.stdout,
                        !.stderr = execution.stderr,
                        !.finished_at = execution.finished_at,
                        !.writes = @ + 1]]

\* update_script_execution: UPDATE ... WHERE id = execution.id
update_script_execution(rows, execution_id, execution) ==
    [i \in DOMAIN rows |->
        IF i = execution_id
        THEN [rows[i] EXCEPT !.status = execution.status,
                             !.exit_code = execution.exit_code,
                             !.stdout = execution.stdout,
                             !.stderr = execution.stderr,
                             !.finished_at = execution.finished_at,
                             !.writes = @ + 1]
        ELSE rows[i]]

run_async_result_always_completed(execution, script, o) ==
    IF o.kind = "exit"
    THEN [execution EXCEPT !.status = "completed",
                           !.exit_code = o.code,
                           !.stdout = truncate_output(o.stdout),
                           !.stderr = truncate_output(o.stderr),
                           !.finished_at = "now"]
    ELSE IF o.kind = "TimeoutExpired"
    THEN [execution EXCEPT !.status = "timeout",
                           !.stderr = TimeoutMessage(script.timeout),
                           !.finished_at = "now"]
    ELSE [execution EXCEPT !.status = "failed", !.stderr = ErrorMessage,
                           !.finished_at = "now"]

\* _run_async, lines 172-191: the fetched execution after subprocess.run
\* ended as o (an exit, TimeoutExpired or OSError)
run_async_result(execution, script, o) ==
    IF o.kind = "exit"
    THEN [execution EXCEPT !.status = IF o.code = 0 THEN "completed" ELSE "failed",
                           !.exit_code = o.code,
                           !.stdout = truncate_output(o.stdout),
                           !.stderr = truncate_output(o.stderr),
                           !.finished_at = "now"]
    ELSE IF o.kind = "TimeoutExpired"
    THEN [execution EXCEPT !.status = "timeout",
                           !.stderr = TimeoutMessage(script.timeout),
                           !.finished_at = "now"]
    ELSE [execution EXCEPT !.status = "failed", !.stderr = ErrorMessage,
                           !.finished_at = "now"]

\* A background thread running _run_async(script, execution_id, db).
\*   pc         "start": started, nothing done yet
\*              "fetched": db.get_script_execution returned the row
\*              "ran": subprocess.run ended and the result is in `execution`
\*              "done": _run_async returned
\*              "died": an exception left _run_async
\*   run        how subprocess.run ended
\*   execution  the thread's ScriptExecution object
\*   spawned    the commands handed to subprocess.run
\*   valid_at_spawn   what validate_script would have answered for the
\*              script at the moment subprocess.run was called
\*   saved      db.update_script_execution returned
Unit(script, execution_id) ==
    [script |-> script, execution_id |-> execution_id, pc |-> "start",
     run |-> NotRun, execution |-> ScriptExecution("none", "none"),
     spawned |-> <<>>, valid_at_spawn |-> FALSE, saved |-> FALSE]

UnitFinished(u) == u.pc \in {"done", "died"}

\* line 162-167: fetch the row; db_ok is FALSE when the read raises
run_async_fetch(rows, u, db_ok) ==
    IF ~db_ok THEN [u EXCEPT !.pc = "died"]
    ELSE IF ~execution_found(rows, u.execution_id) THEN [u EXCEPT !.pc = "done"]
    ELSE [u EXCEPT !.pc = "fetched", !.execution = rows[u.execution_id]]

\* lines 169-191: build the command and run it
run_async_run(sf, is_windows, u, o) ==
    LET cmd == build_command(is_windows, resolve(sf, u.script.script_path))
        ran == [u EXCEPT !.run = o, !.spawned = <<cmd>>,
                         !.valid_at_spawn = validate_script(sf, is_windows, u.script).ok]
    IN  IF o.kind \in {"exit", "TimeoutExpired", "OSError"}
        THEN [ran EXCEPT !.pc = "ran",
                         !.execution = run_async_result(u.execution, u.script, o)]
        ELSE [ran EXCEPT !.pc = "died"]

\* lines 193-198: save the row; an exception of the update is logged.
\* Yields [rows, unit].
run_async_save(rows, u, db_ok) ==
    IF db_ok
    THEN [rows |-> update_script_execution(rows, u.execution_id, u.execution),
          unit |-> [u EXCEPT !.pc = "done", !.saved = TRUE]]
    ELSE [rows |-> rows, unit |-> [u EXCEPT !.pc = "done"]]

----------------------------------------------------------------------------
(* Route api_execute_script *)

\* app_scripts table: script id -> AppScript
ScriptTable ==
    ("sync" :> AppScript("sync", StoredPath(TRUE, Append(AppsDir, <<"run", "sh">>)),
                         "sync", 10, TRUE))
    @@ ("async" :> AppScript("async", StoredPath(FALSE, << <<"job", "sh">> >>),
                             "async", 10, TRUE))
    @@ ("bat" :> AppScript("bat", StoredPath(TRUE, Append(AppsDir, <<"run", "bat">>)),
                           "sync", 10, TRUE))
    @@ ("escape" :> AppScript("escape", StoredPath(TRUE, Append(AppsDir, <<"out", "sh">>)),
                              "async", 10, TRUE))
    @@ ("off" :> AppScript("off", StoredPath(TRUE, Append(AppsDir, <<"run", "sh">>)),
                           "sync", 10, FALSE))

\* the script ids requests are made for
ScriptIds == DOMAIN ScriptTable \cup {"ghost"}

\* db.get_app_script(app_id, script_id) is not None
script_found(script_id) == script_id \in DOMAIN ScriptTable

\* Record of one ScriptExecutor call or execute request.
\*   op            "validate", "execute_sync" or "api_execute_script"
\*   script        the AppScript the call was made for
\*   run           how subprocess.run ended, NotRun when it was not reached
\*   ok, reason    what validate_script returned
\*   raised        "none" or the exception that left the call
\*   result        the ScriptExecutionResult
\*   spawned       the commands handed to subprocess.run during the call
\*   http, success the response of the request; http 0 when an exception
\*                 left the handler
\*   execution_id  the row the request created, 0 when it created none
\*   started       the request started a background thread
ScriptRes(op, script, o) ==
    [op |-> op, script |-> script, run |-> o, ok |-> FALSE, reason |-> "",
     raised |-> "none", result |-> NoResult, spawned |-> <<>>, http |-> 200,
     success |-> FALSE, execution_id |-> 0, started |-> FALSE]

NoScriptRes == ScriptRes("none", NoScript, NotRun)

\* the row the route would write if it left the finish time unset
sync_execution_unfinished(execution, result) ==
    LET status == IF Truthy(result.error_message)
                  THEN (IF HasTimeoutIndicator(result.error_message)
                        THEN "timeout" ELSE "failed")
                  ELSE (IF result.success THEN "completed" ELSE "failed")
        stderr == IF Truthy(result.error_message) THEN result.error_message
                  ELSE execution.stderr
    IN  [execution EXCEPT !.status = status,
                          !.exit_code = result.exit_code,
                          !.stdout = result.stdout,
                          !.stderr = IF Truthy(stderr) THEN stderr ELSE result.stderr]

\* lines 642-655: the row after a synchronous run gave result
sync_execution(execution, result) ==
    LET status == IF Truthy(result.error_message)
                  THEN (IF HasTimeoutIndicator(result.error_message)
                        THEN "timeout" ELSE "failed")
                  ELSE (IF result.success THEN "completed" ELSE "failed")
        stderr == IF Truthy(result.error_message) THEN result.error_message
                  ELSE execution.stderr
    IN  [execution EXCEPT !.status = status,
                          !.exit_code = result.exit_code,
                          !.stdout = result.stdout,
                          !.stderr = IF Truthy(stderr) THEN stderr ELSE result.stderr,
                          !.finished_at = "now"]

\* api_execute_script with the inputs in: create_ok and update_ok tell
\* whether the INSERT and the UPDATE return or raise, o is how subprocess.run
\* ends in the synchronous mode.  Yields [rows, units, res].
api_execute_script(sf, is_windows, rows, us, script_id, in) ==
    LET script == IF script_found(script_id) THEN ScriptTable[script_id] ELSE NoScript
        base   == ScriptRes("api_execute_script", script, NotRun)
        v      == validate_script(sf, is_windows, script)
        rows1  == create_script_execution(rows, ScriptExecution(script_id, script.mode))
        execution_id == Len(rows1)
        made   == [base EXCEPT !.ok = TRUE, !.execution_id = execution_id]
        r      == execute_sync(sf, is_windows, script, in.o)
        ran    == [made EXCEPT !.run = in.o, !.result = r.result, !.spawned = r.spawned]
        rows2  == update_script_execution(rows1, execution_id,
                      sync_execution(rows1[execution_id], r.result))
    IN  IF ~script_found(script_id)
        THEN [rows |-> rows, units |-> us, res |-> [base EXCEPT !.http = 404]]
        ELSE IF ~script.enabled
        THEN [rows |-> rows, units |-> us, res |-> [base EXCEPT !.http = 400]]
        ELSE IF ~v.ok
        THEN [rows |-> rows, units |-> us,
              res |-> [base EXCEPT !.http = 400, !.reason = v.reason]]
        ELSE IF ~in.create_ok
        THEN [rows |-> rows, units |-> us,
              res |-> [base EXCEPT !.ok = TRUE, !.http = 0, !.raised = "sqlite3.Error"]]
        ELSE IF script.mode = "async"
        THEN [rows |-> rows1, units |-> Append(us, Unit(script, execution_id)),
              res |-> [made EXCEPT !.success = TRUE, !.started = TRUE]]
        ELSE IF r.raised # "none"
        THEN [rows |-> rows1, units |-> us,
              res |-> [ran EXCEPT !.http = 0, !.raised = r.raised]]
        ELSE IF ~in.update_ok
        THEN [rows |-> rows1, units |-> us,
              res |-> [ran EXCEPT !.http = 0, !.raised = "sqlite3.Error"]]
        ELSE [rows |-> rows2, units |-> us,
              res |-> [ran EXCEPT !.success = r.result.success]]

----------------------------------------------------------------------------
(* GitHubClient: _request, get_latest_release, get_releases, download_asset *)

\* How urllib.request.urlopen and the reading of the response end:
\*   "ok"                    the response was read
\*   "HTTPError"             an error status, with its code and the reason
\*                           phrase of the status line
\*   "URLError"              the connection could not be made; reason is the
\*                           text of the wrapped OSError (a connect timeout
\*                           is wrapped the same way)
\*   "TimeoutError"          the socket timed out while the response was awaited
\*   "ConnectionResetError"  the peer closed the connection while the
\*                           response was awaited (http.client raises it
\*                           from getresponse, outside urllib's wrapping)
UrlOutcome(kind, code, reason) == [kind |-> kind, code |-> code, reason |-> reason]

\* the reason phrase servers usually send with a status code
ReasonPhrase(code) ==
    CASE code = "404" -> "Not Found"
      [] code = "401" -> "Unauthorized"
      [] code = "403" -> "Forbidden"
      [] OTHER -> "Internal Server Error"

HttpCodes == {"404", "401", "403", "500"}

\* the reason phrase of a status line is free text and may be empty
UrlOutcomes ==
    {UrlOutcome("ok", "200", "OK")}
        \cup UNION {{UrlOutcome("HTTPError", c, r) : r \in {ReasonPhrase(c), ""}} :
                        c \in HttpCodes}
        \cup {UrlOutcome("URLError", "", r) : r \in {"Connection refused", "timed out"}}
        \cup {UrlOutcome("TimeoutError", "", "timed out"),
              UrlOutcome("ConnectionResetError", "", "Connection reset by peer")}

\* A message is the sequence of its parts.  The parts written here in Latin
\* letters stand for the Japanese texts of the source.
\* "見つかりません"
NotFoundMarker == "mitsukarimasen"

\* `part in str(e)`
contains(message, part) == \E i \in 1..Len(message) : message[i] = part

\* f"/repos/{owner}/{repo}/releases/latest" and f".../releases?per_page={n}"
LatestEndpoint == "/repos/o/r/releases/latest"

ListEndpoint == "/repos/o/r/releases?per_page=10"

\* what a GitHubClient method does: raised is "none" or the exception class
\* that leaves it, message is str(e) of a GitHubClientError
ClientResult(raised, message) == [raised |-> raised, message |-> message]

Typed(message) == ClientResult("GitHubClientError", message)

\* _request(endpoint), lines 62-98
request(endpoint, o) ==
    IF o.kind = "ok" THEN ClientResult("none", <<>>)
    ELSE IF o.kind = "HTTPError"
    THEN (IF o.code = "404" THEN Typed(<<"risosu ga", NotFoundMarker, endpoint>>)
          ELSE IF o.code = "401" THEN Typed(<<"ninsho ni shippai shimashita">>)
          ELSE IF o.code = "403" THEN Typed(<<"akusesu ga kyohi saremashita">>)
          ELSE Typed(<<"GitHub API era", o.code, o.reason>>))
    ELSE IF o.kind = "URLError" THEN Typed(<<"nettowaku era", o.reason>>)
    ELSE IF o.kind = "TimeoutError" THEN Typed(<<"rikuesuto ga taimuauto shimashita">>)
    ELSE ClientResult(o.kind, <<>>)

\* Record of one GitHubClient call.
\*   op        "get_latest_release", "get_releases" or "download_asset"
\*   outcome   how urlopen ended
\*   raised, message   as in ClientResult
\*   returned_none     get_latest_release returned None
\*   release   the release get_latest_release returned, NoRelease otherwise
RelRes(op, o, r) ==
    [op |-> op, outcome |-> o, raised |-> r.raised, message |-> r.message,
     returned_none |-> FALSE, release |-> NoRelease]

NoRelRes == RelRes("none", UrlOutcome("none", "", ""), ClientResult("none", <<>>))

\* what is kept of the call before the last one
RelPrev(res) ==
    [op |-> res.op, outcome |-> res.outcome, raised |-> res.raised,
     message |-> res.message]

NoRelPrev == RelPrev(NoRelRes)

\* get_latest_release(owner, repo), lines 100-116; the API answers with the
\* release `latest` when the request succeeds
get_latest_release(o, latest) ==
    LET r    == request(LatestEndpoint, o)
        base == RelRes("get_latest_release", o, r)
    IN  IF r.raised = "GitHubClientError" /\ contains(r.message, NotFoundMarker)
        THEN [base EXCEPT !.raised = "none", !.message = <<>>, !.returned_none = TRUE]
        ELSE IF r.raised # "none" THEN base
        ELSE [base EXCEPT !.release = latest]

\* get_releases(owner, repo, per_page), lines 118-130
get_releases(o) == RelRes("get_releases", o, request(ListEndpoint, o))

\* download_asset(asset, dest_path), lines 156-180: HTTPError is a URLError
\* and is caught by the same clause
download_asset(o) ==
    LET r == IF o.kind = "ok" THEN ClientResult("none", <<>>)
             ELSE IF o.kind \in {"HTTPError", "URLError"}
             THEN Typed(<<"daunrodo era", o.reason>>)
             ELSE IF o.kind = "TimeoutError"
             THEN Typed(<<"daunrodo ga taimuauto shimashita">>)
             ELSE ClientResult(o.kind, <<>>)
    IN  RelRes("download_asset", o, r)

----------------------------------------------------------------------------
(* Specification SpecInstall: direct calls of AppInstaller on one install  *)
(* root                                                                    *)

LatestOutcomes ==
    {[ok |-> TRUE, release |-> r] : r \in Releases \cup {NoRelease}}
        \cup {[ok |-> FALSE, release |-> NoRelease]}

\* longest archive of the release data, plus the mkdir step
MaxExtractSteps == ExtractSteps(ArchWrapped)

IdleManager ==
    /\ active = [u \in Units |-> FALSE]
    /\ useSystemctl = TRUE
    /\ mgrRes = NoMgrRes
    /\ mgrPrev = NoMgrPrev

IdleRoutes ==
    /\ db = [a \in KnownApps |-> NotInstalled]
    /\ reqRes = NoReqRes

IdleClient ==
    /\ relRes = NoRelRes
    /\ relPrev = NoRelPrev

IdleInstalls == installs = <<>>

IdleScripts ==
    /\ sfs = ScriptFs
    /\ isWindows = FALSE
    /\ execs = <<>>
    /\ units = <<>>
    /\ scriptRes = NoScriptRes

InitInstall ==
    /\ IdleClient
    /\ IdleInstalls
    /\ fs \in [DirNames -> {Absent, Dir(OldTree), Dir(StaleTree)}]
    /\ instRes = NoInstRes
    /\ IdleManager
    /\ IdleRoutes
    /\ IdleScripts

\* the release argument and the answer of the release API; the API is asked
\* only when the argument is omitted
ReleaseInputs ==
    {[release |-> r, latest |-> [ok |-> TRUE, release |-> NoRelease]] : r \in Releases}
        \cup {[release |-> NoRelease, latest |-> l] : l \in LatestOutcomes}

InstallerInstall ==
    \E app_id \in InstallIds, inp \in ReleaseInputs,
       dl_ok \in BOOLEAN, done \in 0..MaxExtractSteps :
        LET r == install(fs, app_id, inp.release, inp.latest, dl_ok, done)
        IN  /\ done <= ExtractSteps(find_zip_asset(ChosenRelease(inp.release, inp.latest)).archive)
            /\ dl_ok \/ done = 0
            /\ fs' = r.fs
            /\ instRes' = r.res
            /\ UNCHANGED <<sfs, clientVars, installs,
                           active, useSystemctl, mgrRes, mgrPrev, db, reqRes, scriptVars>>

InstallerUninstall ==
    \E app_id \in InstallIds :
        LET r == uninstall(fs, app_id)
        IN  /\ fs' = r.fs
            /\ instRes' = r.res
            /\ UNCHANGED <<sfs, clientVars, installs,
                           active, useSystemctl, mgrRes, mgrPrev, db, reqRes, scriptVars>>

\* the versions check_update is asked about: none, tags older and newer than
\* the releases, the tags of the releases, the empty string
CurrentVersions == {"None", "v1", "v2", "v3", "v9", ""}

InstallerCheckUpdate ==
    \E latest \in LatestOutcomes, current_version \in CurrentVersions :
        /\ instRes' = check_update(latest, current_version)
        /\ UNCHANGED <<sfs, clientVars, installs,
                       fs, active, useSystemctl, mgrRes, mgrPrev, db, reqRes, scriptVars>>

NextInstall == InstallerInstall \/ InstallerUninstall \/ InstallerCheckUpdate

SpecInstall == InitInstall /\ [][NextInstall]_vars

----------------------------------------------------------------------------
(* Claims about AppInstaller.install *)

InstD == fs[get_app_dir(instRes.app_id)]

InstB == fs[with_suffix_backup(get_app_dir(instRes.app_id))]

InstallFailedInTry ==
    instRes.op = "install" /\ instRes.stage \in {"download", "unpack"}

\* C1 (as stated): an install that fails during download or unpack raises the
\* typed error and leaves the install directory and the backup location
\* exactly as they were before the call; a directory that did not exist
\* before the call does not exist after it.
C1_FailedInstallRestoresState ==
    InstallFailedInTry =>
        /\ instRes.raised = "GitHubClientError"
        /\ InstD = instRes.preD
        /\ InstB = instRes.preB

\* C2: when the install directory existed before the call, an install that
\* fails during download or unpack leaves the install directory with its
\* previous contents and leaves no backup directory.
C2_FailedInstallKeepsExisting ==
    (InstallFailedInTry /\ instRes.preD.exists) =>
        /\ InstD = instRes.preD
        /\ ~InstB.exists

C2_Witness ==
    /\ InstallFailedInTry
    /\ instRes.stage = "unpack"
    /\ instRes.preD = Dir(OldTree)
    /\ instRes.preB = Dir(StaleTree)
    /\ InstD = Dir(OldTree)

InstallSucceeded == instRes.op = "install" /\ instRes.raised = "none"

InstPayload == Dir(Payload(find_zip_asset(instRes.release).archive))

\* the backup location is a directory beside the install directory
InstHasBackupLocation ==
    with_suffix_backup(get_app_dir(instRes.app_id)) # get_app_dir(instRes.app_id)

\* C3 (as stated): a successful install returns the tag of the release, ends
\* with the install directory holding exactly the unpacked payload of the
\* first zip asset, and leaves no backup directory, whatever existed before.
C3_SuccessLeavesNoBackup ==
    InstallSucceeded =>
        /\ instRes.value = instRes.release.tag_name
        /\ InstD = InstPayload
        /\ InstHasBackupLocation => ~InstB.exists

\* C3 (amended): a successful install returns the tag of the release and ends
\* with the install directory holding exactly the unpacked payload of the
\* first zip asset; no backup directory is left beside it when a previous
\* installation existed or no stale backup existed before the call, and a
\* stale backup found while the install directory was absent is left as it
\* was.
C3_SuccessReplacesContents ==
    InstallSucceeded =>
        /\ instRes.value = instRes.release.tag_name
        /\ instRes.release \in Releases
        /\ InstD = InstPayload
        /\ (InstHasBackupLocation /\ (instRes.preD.exists \/ ~instRes.preB.exists))
               => ~InstB.exists
        /\ (InstHasBackupLocation /\ ~instRes.preD.exists) => InstB = instRes.preB

C3_Witness ==
    /\ InstallSucceeded
    /\ instRes.preD = Dir(OldTree)
    /\ instRes.preB = Dir(StaleTree)
    /\ instRes.value = "v2"
    /\ InstD = Dir({File(<<"F">>, "zw"), File(<<"G">>, "zw")})
    /\ ~InstB.exists

CheckUpdateReturned == instRes.op = "check_update" /\ instRes.raised = "none"

\* C18: checkUpdate returns the latest release exactly when a latest release
\* exists and currentVersion is absent or is a string different from the
\* release tag (an older tag than currentVersion is reported too); it
\* returns nothing when no release exists or the tag equals currentVersion.
C18_CheckUpdateComparesTags ==
    CheckUpdateReturned =>
        /\ instRes.returned # NoRelease <=>
               /\ instRes.release # NoRelease
               /\ (instRes.current = "None"
                   \/ instRes.current # instRes.release.tag_name)
        /\ instRes.returned # NoRelease => instRes.returned = instRes.release

C18_Witness ==
    /\ CheckUpdateReturned
    /\ instRes.current = "v9"
    /\ instRes.release = RelMulti
    /\ instRes.returned = RelMulti

\* asset i of the release is the first one, in release order, whose name
\* ends in ".zip"
FirstZipAt(release, i) ==
    /\ i \in 1..Len(release.assets)
    /\ IsZipName(release.assets[i].name)
    /\ \A j \in 1..(i - 1) : ~IsZipName(release.assets[j].name)

\* C19: install raises the typed error when the release is omitted and no
\* latest release exists, and when the release has no asset whose name ends
\* in ".zip"; in both cases no download is attempted and the install
\* directory and the backup location are as before the call.  An install
\* that downloads, downloads the first ".zip" asset in release order.
C19_InstallNeedsReleaseAndAsset ==
    instRes.op = "install" =>
        /\ (instRes.release = NoRelease
            \/ ~\E i \in 1..Len(instRes.release.assets) : FirstZipAt(instRes.release, i))
               => /\ instRes.raised = "GitHubClientError"
                  /\ instRes.stage \in {"release", "asset"}
                  /\ instRes.downloaded = <<>>
                  /\ InstD = instRes.preD
                  /\ InstB = instRes.preB
        /\ instRes.stage = "release" <=> instRes.release = NoRelease
        /\ instRes.downloaded # <<>> =>
               \E i \in 1..Len(instRes.release.assets) :
                   /\ FirstZipAt(instRes.release, i)
                   /\ instRes.release.assets[i].name = instRes.downloaded

C19_Witness ==
    /\ instRes.op = "install"
    /\ instRes.release = RelNoZip
    /\ instRes.stage = "asset"
    /\ instRes.raised = "GitHubClientError"
    /\ instRes.preD = Dir(OldTree)
    /\ instRes.preB = Dir(StaleTree)
    /\ InstD = Dir(OldTree)
    /\ InstB = Dir(StaleTree)

BackupLocation(a) == with_suffix_backup(get_app_dir(a))

\* C26 (as stated): an install or uninstall of app A leaves the install
\* directory of every other configured app B as it was, for all pairs of
\* ids, ids with a dot and ids ending in ".backup" included: the backup
\* location of A is neither the install directory nor the backup location
\* of B.
C26_OtherAppsUntouched ==
    [][instRes'.op \in {"install", "uninstall"} =>
          \A b \in InstallIds \ {instRes'.app_id} :
              /\ fs'[get_app_dir(b)] = fs[get_app_dir(b)]
              /\ BackupLocation(instRes'.app_id) # get_app_dir(b)
              /\ BackupLocation(instRes'.app_id) # BackupLocation(b)]_vars

----------------------------------------------------------------------------
(* Specification SpecLifecycle: calls of AppManager against the OS service *)
(* manager and the apps' health endpoints                                  *)

IdleInstaller ==
    /\ fs = [d \in DirNames |-> Absent]
    /\ instRes = NoInstRes

InitLifecycle ==
    /\ IdleClient
    /\ IdleInstalls
    /\ active \in [Units -> BOOLEAN]
    /\ useSystemctl \in BOOLEAN
    /\ mgrRes = NoMgrRes
    /\ mgrPrev = NoMgrPrev
    /\ IdleInstaller
    /\ IdleRoutes
    /\ IdleScripts

WasActive(app_id) == get_app_found(app_id) /\ active[ServiceName(app_id)]

GetStatus ==
    \E app_id \in AppIds, q \in QueryOutcomes, h \in ProbeOutcomes :
        /\ QueryPossible(q, WasActive(app_id))
        /\ mgrRes' = get_status(useSystemctl, app_id, q, h, WasActive(app_id))
        /\ mgrPrev' = MgrPrev(mgrRes)
        /\ UNCHANGED <<sfs, clientVars, installs,
                       fs, instRes, active, useSystemctl, db, reqRes, scriptVars>>

\* start, stop and restart: _execute_operation and the command's effect on
\* the unit
Operate(operation) ==
    \E app_id \in AppIds, r \in RunOutcomes :
        LET res == execute_operation(useSystemctl, app_id, operation, r,
                                     WasActive(app_id))
        IN  /\ mgrRes' = res
            /\ mgrPrev' = MgrPrev(mgrRes)
            /\ IF res.calls = <<>>
               THEN active' = active
               ELSE \E a \in UnitAfter(operation, r, WasActive(app_id)) :
                        active' = [active EXCEPT ![ServiceName(app_id)] = a]
            /\ UNCHANGED <<sfs, clientVars, installs,
                           fs, instRes, useSystemctl, db, reqRes, scriptVars>>

Start == Operate("start")

Stop == Operate("stop")

Restart == Operate("restart")

\* the unit exits or is started outside the supervisor
UnitChanges ==
    \E u \in Units :
        /\ active' = [active EXCEPT ![u] = ~active[u]]
        /\ UNCHANGED <<sfs, clientVars, installs,
                       fs, instRes, useSystemctl, mgrRes, mgrPrev, db, reqRes, scriptVars>>

NextLifecycle == GetStatus \/ Start \/ Stop \/ Restart \/ UnitChanges

SpecLifecycle == InitLifecycle /\ [][NextLifecycle]_vars

----------------------------------------------------------------------------
(* Claims about AppManager *)

StatusReturned ==
    /\ mgrRes.op = "get_status"
    /\ mgrRes.req_app \in KnownApps

\* the service-active query ran and gave an exit code
QueryAnswered == useSystemctl /\ mgrRes.req_q \in {"exit0", "exit3"}

\* C5: whenever the service-active query of a known app reports the service
\* inactive, and whenever the service is inactive and the query is answered,
\* getStatus returns Stopped (and requests no health URL), for every probe
\* configuration and every answer of the health endpoint.
C5_InactiveIsStopped ==
    StatusReturned =>
        /\ (mgrRes.raised = "none" /\ ~mgrRes.service_active)
               => mgrRes.status = "stopped"
        /\ (QueryAnswered /\ ~mgrRes.was_active)
               => (mgrRes.raised = "none" /\ mgrRes.status = "stopped"
                   /\ mgrRes.probes = <<>>)
        /\ (mgrRes.req_q \in {"exit3", "TimeoutExpired", "FileNotFoundError"})
               => (mgrRes.raised = "none" /\ mgrRes.status = "stopped")

C5_Witness ==
    /\ StatusReturned
    /\ QueryAnswered
    /\ ~mgrRes.was_active
    /\ mgrRes.req_app = <<"app", "backup">>
    /\ mgrRes.req_h = "200"
    /\ mgrRes.status = "stopped"

ProbeConfigured(app_id) == StoredHealthPath(app_id) # "None"

\* the service-active query reported the service active
QueryReportsActive == useSystemctl /\ mgrRes.req_q = "exit0"

\* C6 (as stated): for a known app whose service is reported active and whose
\* probe is configured, getStatus returns Running when the probe answers 200
\* and Error when the probe fails in any way; a failing probe never yields
\* Running.
C6_ProbeDecidesStatus ==
    (StatusReturned /\ QueryReportsActive /\ ProbeConfigured(mgrRes.req_app)) =>
        /\ mgrRes.req_h = "200" => (mgrRes.raised = "none" /\ mgrRes.status = "running")
        /\ mgrRes.req_h # "200" => (mgrRes.raised = "none" /\ mgrRes.status = "error")

\* C7 (as stated): for a known app whose service is reported active and which
\* has no probe configured, getStatus returns Running whatever an HTTP
\* endpoint on the app's port answers.
C7_NoProbeIsRunning ==
    (StatusReturned /\ QueryReportsActive /\ ~ProbeConfigured(mgrRes.req_app)) =>
        (mgrRes.raised = "none" /\ mgrRes.status = "running")

\* C8: getStatus, start, stop and restart on an app id outside the configured
\* set return a not-found result (status Unknown, or success=false, with the
\* not-found message), raise nothing, and issue no systemctl command and no
\* health request.
C8_UnknownAppNotFound ==
    (mgrRes.op # "none" /\ mgrRes.req_app \notin KnownApps) =>
        /\ mgrRes.raised = "none"
        /\ mgrRes.calls = <<>>
        /\ mgrRes.probes = <<>>
        /\ mgrRes.app_id = mgrRes.req_app
        /\ mgrRes.op = "get_status" =>
               (mgrRes.status = "unknown" /\ mgrRes.error_message = "not_found")
        /\ mgrRes.op # "get_status" =>
               (~mgrRes.success /\ mgrRes.message = "not_found"
                /\ mgrRes.operation = mgrRes.op)

C8_Witness ==
    /\ mgrRes.op = "stop"
    /\ mgrRes.req_app = <<"ghost">>
    /\ useSystemctl
    /\ mgrRes.message = "not_found"
    /\ \E u \in Units : active[u]

\* C9 (as stated): for every way the service-active query can end, getStatus
\* on a known app raises nothing and returns an AppState, and every inability
\* to query (anything but an exit code) is reported as Stopped.
C9_QueryNeverThrows ==
    StatusReturned =>
        /\ QueryAnswered => mgrRes.raised \notin QueryOutcomes
        /\ (mgrRes.req_q \notin {"exit0", "exit3"} /\ useSystemctl)
               => (mgrRes.raised = "none" /\ mgrRes.status = "stopped")

IsOperation == mgrRes.op \in {"start", "stop", "restart"}

\* C10: for a known app, every failure of the systemctl command during start,
\* stop or restart (non-zero exit, timeout, any other exception) comes back
\* as an OperationResult with success=false, the requested operation and app
\* id and a diagnostic message; nothing is raised.
C10_OperationFailureIsResult ==
    (IsOperation /\ mgrRes.req_app \in KnownApps /\ useSystemctl
        /\ mgrRes.req_r # "exit0") =>
        /\ mgrRes.raised = "none"
        /\ ~mgrRes.success
        /\ mgrRes.operation = mgrRes.op
        /\ mgrRes.app_id = mgrRes.req_app
        /\ mgrRes.message \in {"systemctl_failed", "unexpected_error"}
        /\ mgrRes.calls = << <<mgrRes.op, ServiceName(mgrRes.req_app)>> >>

C10_Witness ==
    /\ mgrRes.op = "restart"
    /\ mgrRes.req_app = <<"app">>
    /\ useSystemctl
    /\ mgrRes.req_r = "TimeoutExpired"
    /\ ~mgrRes.success
    /\ mgrRes.message = "unexpected_error"

\* C11: in the simulated mode (use_systemctl=False), whatever calls came
\* before, a start, stop or restart of a known app returns success=true, no
\* call issues a systemctl command or a health request, the service-active
\* query reports false and getStatus returns Stopped, also right after a
\* successful start and whatever the unit's real state is.
C11_SimulatedModeIsInert ==
    ~useSystemctl =>
        /\ mgrRes.calls = <<>>
        /\ mgrRes.probes = <<>>
        /\ mgrRes.raised = "none"
        /\ (IsOperation /\ mgrRes.req_app \in KnownApps) =>
               (mgrRes.success /\ mgrRes.operation = mgrRes.op
                /\ mgrRes.message = "completed")
        /\ StatusReturned =>
               (~mgrRes.service_active /\ mgrRes.status = "stopped")

C11_Witness ==
    /\ ~useSystemctl
    /\ mgrPrev.op = "start"
    /\ mgrPrev.success
    /\ mgrPrev.req_app = <<"app">>
    /\ StatusReturned
    /\ mgrRes.req_app = <<"app">>
    /\ mgrRes.req_q = "exit0"
    /\ mgrRes.status = "stopped"

----------------------------------------------------------------------------
(* Specification SpecRoutes: install, update and uninstall requests        *)

\* an app recorded as installed has its directory; systemd units exist only
\* where systemctl is used
InitRoutes ==
    /\ IdleClient
    /\ IdleInstalls
    /\ useSystemctl \in BOOLEAN
    /\ active \in [Units -> BOOLEAN]
    /\ ~useSystemctl => active = [u \in Units |-> FALSE]
    /\ \E was \in BOOLEAN, stale \in {Absent, Dir(StaleTree)} :
        /\ db = [a \in KnownApps |->
                    IF was /\ a = <<"app">>
                    THEN InstalledState(TRUE, "v1", "earlier") ELSE NotInstalled]
        /\ fs = [d \in DirNames |->
                    IF d = <<"app">> THEN (IF was THEN Dir(OldTree) ELSE Absent)
                    ELSE stale]
    /\ instRes = NoInstRes
    /\ mgrRes = NoMgrRes
    /\ mgrPrev = NoMgrPrev
    /\ reqRes = NoReqRes
    /\ IdleScripts

\* the probe and release answers the requests are run against
RouteProbeOutcomes == {"200", "URLError", "RemoteDisconnected"}

RouteLatestOutcomes ==
    {[ok |-> TRUE, release |-> RelMulti], [ok |-> TRUE, release |-> NoRelease],
     [ok |-> FALSE, release |-> NoRelease]}

\* an input the handler never reads is pinned to one value
Pinned(used, value, default) == used \/ value = default

\* the handler gets as far as the status query
ReachesStatus(app_id) == db_found(app_id) /\ db[app_id].installed

\* the inputs of the status query and of the stop: the query outcome q, the
\* probe outcome h, the outcome r_stop of `systemctl stop` and the unit's
\* state a_stop after it
StatusInputs ==
    {in \in [app_id : RouteIds, q : QueryOutcomes, h : RouteProbeOutcomes,
             r_stop : RunOutcomes, a_stop : BOOLEAN] :
        LET reach    == ReachesStatus(in.app_id)
            probing  == reach /\ useSystemctl /\ in.q = "exit0"
            stopping == probing /\ in.h # "RemoteDisconnected"
        IN  /\ reach => QueryPossible(in.q, UnitActive(active, in.app_id))
            /\ Pinned(reach /\ useSystemctl, in.q, "exit3")
            /\ Pinned(probing, in.h, "200")
            /\ Pinned(stopping, in.r_stop, "exit0")
            /\ IF stopping
               THEN in.a_stop \in UnitAfter("stop", in.r_stop,
                                            UnitActive(active, in.app_id))
               ELSE in.a_stop = FALSE}

\* the inputs of _get_installer and install: a token is configured, the
\* answer of the release API, the download returns, the unpack steps done
InstallInputs(reach) ==
    {in \in [tok : BOOLEAN, latest : RouteLatestOutcomes, dl_ok : BOOLEAN,
             done : 0..MaxExtractSteps] :
        LET asset == find_zip_asset(in.latest.release)
            downloading == reach /\ in.tok /\ in.latest.ok /\ asset # NoAsset
        IN  /\ Pinned(reach, in.tok, TRUE)
            /\ Pinned(reach /\ in.tok, in.latest, [ok |-> FALSE, release |-> NoRelease])
            /\ Pinned(downloading, in.dl_ok, TRUE)
            /\ Pinned(downloading /\ in.dl_ok, in.done, 0)
            /\ in.done <= ExtractSteps(asset.archive)}

\* the outcome r_start of `systemctl start` and the unit's state after it
StartInputs(starting, before) ==
    {in \in [r_start : RunOutcomes, a_start : BOOLEAN] :
        /\ Pinned(starting, in.r_start, "exit0")
        /\ IF starting THEN in.a_start \in UnitAfter("start", in.r_start, before)
                       ELSE in.a_start = FALSE}

ApiInstall ==
    \E app_id \in RouteIds :
    \E i \in InstallInputs(db_found(app_id) /\ ~db[app_id].installed) :
        LET r == api_install(fs, db, active, app_id, i)
        IN  /\ fs' = r.fs
            /\ db' = r.db
            /\ reqRes' = r.res
            /\ UNCHANGED <<sfs, clientVars, installs,
                           instRes, active, useSystemctl, mgrRes, mgrPrev, scriptVars>>

ApiUpdate ==
    \E s \in StatusInputs :
        LET sf == StopFirst(active, useSystemctl, s)
        IN  \E i \in InstallInputs(ReachesStatus(s.app_id) /\ sf.raised = "none") :
            LET inst == RouteInstall(fs, s.app_id, i.tok, i.latest, i.dl_ok, i.done)
                starting == /\ ReachesStatus(s.app_id) /\ sf.raised = "none"
                            /\ inst.res.raised = "none" /\ useSystemctl
            IN  \E t \in StartInputs(starting, UnitActive(sf.active, s.app_id)) :
                LET r == api_update(fs, db, active, useSystemctl, s, i, t)
                IN  /\ fs' = r.fs
                    /\ db' = r.db
                    /\ active' = r.active
                    /\ reqRes' = r.res
                    /\ UNCHANGED <<sfs, clientVars, installs,
                                   instRes, useSystemctl, mgrRes, mgrPrev, scriptVars>>

ApiUninstall ==
    \E s \in StatusInputs :
        LET sf == StopFirst(active, useSystemctl, s)
        IN  \E tok \in BOOLEAN :
            LET r == api_uninstall(fs, db, active, useSystemctl, s, tok)
            IN  /\ Pinned(ReachesStatus(s.app_id) /\ sf.raised = "none", tok, TRUE)
                /\ fs' = r.fs
                /\ db' = r.db
                /\ active' = r.active
                /\ reqRes' = r.res
                /\ UNCHANGED <<sfs, clientVars, installs,
                               instRes, useSystemctl, mgrRes, mgrPrev, scriptVars>>

\* the unit exits or is started outside these requests
RouteUnitChanges ==
    \E u \in Units :
        /\ useSystemctl
        /\ active' = [active EXCEPT ![u] = ~active[u]]
        /\ UNCHANGED <<sfs, clientVars, installs,
                       fs, instRes, useSystemctl, mgrRes, mgrPrev, db, reqRes, scriptVars>>

NextRoutes == ApiInstall \/ ApiUpdate \/ ApiUninstall \/ RouteUnitChanges

SpecRoutes == InitRoutes /\ [][NextRoutes]_vars

----------------------------------------------------------------------------
(* Claims about the routes *)

\* C4 (as stated): in the update flow AppInstaller.install is entered only
\* when the app's service is inactive, whatever the status query and the
\* stop operation gave.
C4_InstallOnlyWhenStopped ==
    (reqRes.route = "update" /\ reqRes.install_entered) => ~reqRes.active_at_install

\* the stored row of the app the last request was made for
ReqRow == StoredState(db, reqRes.app_id)

\* the last request reached the installer and was answered with success
RequestSucceeded(route) == reqRes.route = route /\ reqRes.success

\* C23: in every state of the applications table reached from a freshly
\* loaded configuration by install, update and uninstall requests, a row
\* with installed = false has neither an installed version nor an
\* installation time.
C23_NotInstalledHasNoVersion ==
    \A a \in DOMAIN db :
        ~db[a].installed =>
            db[a].installed_version = "None" /\ db[a].installed_at = "None"

\* an installed app was uninstalled by a request: its row lost the version
C23_Witness ==
    /\ RequestSucceeded("uninstall")
    /\ reqRes.pre_db.installed
    /\ reqRes.pre_db.installed_version # "None"
    /\ ~ReqRow.installed

\* C27 (as stated): when the update flow stopped the service, a start is
\* issued before the request completes, whether the install succeeded or
\* failed; a failed update never leaves a service that was running before
\* it stopped.
C27_StoppedServiceIsRestarted ==
    reqRes.route = "update" =>
        /\ reqRes.stop_issued => reqRes.start_issued
        /\ (reqRes.was_active /\ reqRes.stop_issued /\ ~reqRes.success /\ reqRes.http = 500)
               => UnitActive(active, reqRes.app_id)

\* C28: the stored InstalledState changes only when the installer call of
\* the request returned successfully; a failed install, update or uninstall
\* leaves installed, installed_version and installed_at exactly as they
\* were; after a successful install or update the stored version is the
\* tag the installer returned, which the response also carries.
C28_StoredStateFollowsInstaller ==
    reqRes.route \in {"install", "update", "uninstall"} =>
        /\ ~reqRes.success => ReqRow = reqRes.pre_db
        /\ (reqRes.success /\ reqRes.route # "uninstall") =>
               /\ ReqRow.installed
               /\ ReqRow.installed_version = RelMulti.tag_name
               /\ ReqRow.installed_version = reqRes.version
               /\ ReqRow.installed_at = "now"

\* an update of an installed app failed in the installer with the typed
\* error and the row still holds the old version and time
C28_Witness ==
    /\ reqRes.route = "update"
    /\ reqRes.http = 500
    /\ reqRes.install_entered
    /\ ReqRow = InstalledState(TRUE, "v1", "earlier")

----------------------------------------------------------------------------
(* Specification SpecValidate: direct calls of ScriptExecutor.validate_script *)
(* and execute_sync on one host                                            *)

ScriptTimeouts == {1, 10}

\* the scripts the executor is called with: every stored path, every timeout
DirectScripts ==
    {AppScript("direct", p, "sync", t, TRUE) : p \in ScriptPaths, t \in ScriptTimeouts}

InitValidate ==
    /\ IdleClient
    /\ IdleInstalls
    /\ sfs = ScriptFs
    /\ isWindows \in BOOLEAN
    /\ execs = <<>>
    /\ units = <<>>
    /\ scriptRes = NoScriptRes
    /\ IdleInstaller
    /\ IdleManager
    /\ IdleRoutes

ValidateScript ==
    \E script \in DirectScripts :
        LET v == validate_script(sfs, isWindows, script)
        IN  /\ scriptRes' = [ScriptRes("validate", script, NotRun)
                                EXCEPT !.ok = v.ok, !.reason = v.reason]
            /\ UNCHANGED <<sfs, clientVars, installs,
                           fs, instRes, active, useSystemctl, mgrRes, mgrPrev, db,
                           reqRes, isWindows, execs, units>>

\* subprocess.run is reached, and ends in one of its ways, only when the
\* script passes validation
ExecuteSync ==
    \E script \in DirectScripts, o \in SubprocessOutcomes \cup {NotRun} :
        LET v == validate_script(sfs, isWindows, script)
            r == execute_sync(sfs, isWindows, script, o)
        IN  /\ v.ok <=> o # NotRun
            /\ scriptRes' = [ScriptRes("execute_sync", script, o)
                                EXCEPT !.ok = v.ok, !.reason = v.reason,
                                       !.raised = r.raised, !.result = r.result,
                                       !.spawned = r.spawned,
                                       !.success = r.result.success]
            /\ UNCHANGED <<sfs, clientVars, installs,
                           fs, instRes, active, useSystemctl, mgrRes, mgrPrev, db,
                           reqRes, isWindows, execs, units>>

\* the lengths of the outputs _truncate_output is called with directly
OutputLengths == {0, 1, MAX_OUTPUT_SIZE - 1, MAX_OUTPUT_SIZE, MAX_OUTPUT_SIZE + 1,
                  2 * MAX_OUTPUT_SIZE}

\* ScriptExecutor._truncate_output(output), a static method: the argument is
\* recorded as run.stdout, the returned value as result.stdout
TruncateOutput ==
    \E output \in {Output("t", n) : n \in OutputLengths} \cup {None} :
        /\ scriptRes' = [ScriptRes("truncate_output", NoScript, Exit(0, output, None))
                            EXCEPT !.result.stdout = truncate_output(output)]
        /\ UNCHANGED <<sfs, clientVars, installs,
                       fs, instRes, active, useSystemctl, mgrRes, mgrPrev, db,
                       reqRes, isWindows, execs, units>>

NextValidate == ValidateScript \/ ExecuteSync \/ TruncateOutput

SpecValidate == InitValidate /\ [][NextValidate]_vars

----------------------------------------------------------------------------
(* Claims about ScriptExecutor.validate_script and execute_sync *)

ValidateReturned == scriptRes.op = "validate"

\* the canonical absolute path of the script the last call was made for
Resolved == resolve(ScriptFs, scriptRes.script.script_path)

PermittedExtensions ==
    IF isWindows THEN ALLOWED_EXTENSIONS_WINDOWS ELSE ALLOWED_EXTENSIONS_LINUX

InsideAllowedRoot(p) ==
    \E i \in 1..Len(allowed_base_dirs) :
        /\ Len(p) >= Len(allowed_base_dirs[i])
        /\ \A k \in 1..Len(allowed_base_dirs[i]) : p[k] = allowed_base_dirs[i][k]

IsRegularFile(p) == p \in DOMAIN ScriptFs /\ ScriptFs[p].kind = "file"

\* C12 (as stated): validate returns ok exactly when the stored path is
\* non-empty, the extension of the resolved path is in the platform's
\* permitted set, the resolved path lies inside an allow-listed base
\* directory and the resolved path is an existing regular file.
C12_ValidateIffAllChecks ==
    ValidateReturned =>
        (scriptRes.ok <=>
            /\ scriptRes.script.script_path # EmptyPath
            /\ suffix(Resolved) \in PermittedExtensions
            /\ InsideAllowedRoot(Resolved)
            /\ IsRegularFile(Resolved))

\* C12 (amended): validate returns ok exactly when the stored path is
\* non-empty, the lower-cased extension of the resolved path is in the
\* platform's permitted set, the resolved path lies inside an allow-listed
\* base directory and the resolved path is an existing regular file; a path
\* that reaches a file outside every root through ".." or a symbolic link is
\* rejected whatever its stored string starts with.
C12_ValidateIffAllChecksAnyCase ==
    ValidateReturned =>
        /\ scriptRes.ok <=>
               /\ scriptRes.script.script_path # EmptyPath
               /\ lower(suffix(Resolved)) \in PermittedExtensions
               /\ InsideAllowedRoot(Resolved)
               /\ IsRegularFile(Resolved)
        /\ ~InsideAllowedRoot(Resolved) => ~scriptRes.ok

C12_Witness ==
    /\ ValidateReturned
    /\ ~isWindows
    /\ scriptRes.script.script_path = StoredPath(TRUE, Append(AppsDir, <<"out", "sh">>))
    /\ Resolved = Append(EtcDir, <<"evil", "sh">>)
    /\ ~scriptRes.ok
    /\ scriptRes.reason = "outside"

SyncReturned == scriptRes.op = "execute_sync"

\* C17: executeSync spawns nothing and returns success=false with the reason
\* when validation fails; otherwise exit code 0 gives success=true with
\* exitCode 0, a non-zero exit code n gives success=false with exitCode n, a
\* timeout gives success=false, no exitCode and a message holding the
\* timeout indicator, and a spawn failure gives success=false with a
\* diagnostic.
C17_SyncResultFollowsOutcome ==
    SyncReturned =>
        LET v   == validate_script(ScriptFs, isWindows, scriptRes.script)
            res == scriptRes.result
            o   == scriptRes.run
        IN  /\ ~v.ok =>
                   /\ scriptRes.spawned = <<>>
                   /\ scriptRes.raised = "none"
                   /\ ~res.success
                   /\ res.exit_code = NoExitCode
                   /\ res.error_message = Text("validation_message", v.reason, 1)
            /\ (v.ok /\ o.kind = "exit") =>
                   /\ scriptRes.raised = "none"
                   /\ res.success <=> (o.code = 0)
                   /\ res.exit_code = o.code
                   /\ Len(scriptRes.spawned) = 1
            /\ (v.ok /\ o.kind = "TimeoutExpired") =>
                   /\ scriptRes.raised = "none"
                   /\ ~res.success
                   /\ res.exit_code = NoExitCode
                   /\ HasTimeoutIndicator(res.error_message)
            /\ (v.ok /\ o.kind = "OSError") =>
                   /\ scriptRes.raised = "none"
                   /\ ~res.success
                   /\ res.exit_code = NoExitCode
                   /\ Truthy(res.error_message)
                   /\ ~HasTimeoutIndicator(res.error_message)

C17_Witness ==
    /\ SyncReturned
    /\ scriptRes.ok
    /\ scriptRes.run.kind = "exit"
    /\ scriptRes.run.code = 7
    /\ ~scriptRes.result.success
    /\ scriptRes.result.exit_code = 7
    /\ scriptRes.spawned = << <<"bash", Append(AppsDir, <<"run", "sh">>)>> >>

\* output is returned as the text r: unmodified up to the limit, cut to the
\* limit and followed by the marker above it
Truncated(output, r) ==
    IF output = None THEN r = None
    ELSE IF output.len <= MAX_OUTPUT_SIZE THEN r = output
    ELSE /\ r.kind = output.kind /\ r.tag = output.tag
         /\ r.truncated
         /\ r.len - MarkerLen = MAX_OUTPUT_SIZE

\* C24: a captured stdout or stderr of at most 65536 units is returned
\* unmodified; a longer one is returned as its first 65536 units followed
\* by the truncation marker; no returned output is longer than 65536 units
\* plus the marker.
C24_OutputCappedAtLimit ==
    /\ scriptRes.run.kind = "exit" /\ scriptRes.raised = "none" =>
           /\ Truncated(scriptRes.run.stdout, scriptRes.result.stdout)
           /\ scriptRes.op = "execute_sync" =>
                  Truncated(scriptRes.run.stderr, scriptRes.result.stderr)
    /\ scriptRes.result.stdout.len <= MAX_OUTPUT_SIZE + MarkerLen
    /\ scriptRes.result.stderr.len <= MAX_OUTPUT_SIZE + MarkerLen

\* an output of exactly the limit came back unmodified
C24_Witness ==
    /\ scriptRes.op = "truncate_output"
    /\ scriptRes.run.stdout = Output("t", MAX_OUTPUT_SIZE)
    /\ scriptRes.result.stdout = Output("t", MAX_OUTPUT_SIZE)

\* an output one unit over the limit came back cut and marked
C24_WitnessOver ==
    /\ scriptRes.op = "truncate_output"
    /\ scriptRes.run.stdout = Output("t", MAX_OUTPUT_SIZE + 1)
    /\ scriptRes.result.stdout.truncated
    /\ scriptRes.result.stdout.len = MAX_OUTPUT_SIZE + MarkerLen

----------------------------------------------------------------------------
(* Specification SpecExecute: execute-script requests and the background   *)
(* threads they start, interleaved                                         *)

\* rows the script_executions table may hold
MaxExecutions == 2

InitExecute ==
    /\ IdleClient
    /\ IdleInstalls
    /\ sfs = ScriptFs
    /\ isWindows \in BOOLEAN
    /\ execs = <<>>
    /\ units = <<>>
    /\ scriptRes = NoScriptRes
    /\ IdleInstaller
    /\ IdleManager
    /\ IdleRoutes

\* the request gets as far as the INSERT
ReachesCreate(script_id) ==
    /\ script_found(script_id)
    /\ ScriptTable[script_id].enabled
    /\ validate_script(sfs, isWindows, ScriptTable[script_id]).ok

\* the inputs of one request: the INSERT returns, how subprocess.run ends,
\* the UPDATE returns
ExecuteInputs(script_id) ==
    {in \in [create_ok : BOOLEAN, o : SubprocessOutcomes \cup {NotRun},
             update_ok : BOOLEAN] :
        LET creating == ReachesCreate(script_id)
            running  == creating /\ in.create_ok
                        /\ ScriptTable[script_id].mode = "sync"
            updating == running /\ in.o.kind \in {"exit", "TimeoutExpired", "OSError"}
        IN  /\ Pinned(creating, in.create_ok, TRUE)
            /\ running <=> in.o # NotRun
            /\ Pinned(updating, in.update_ok, TRUE)}

ApiExecuteScript ==
    \E script_id \in ScriptIds :
    \E in \in ExecuteInputs(script_id) :
        LET r == api_execute_script(sfs, isWindows, execs, units, script_id, in)
        IN  /\ Len(execs) < MaxExecutions
            /\ execs' = r.rows
            /\ units' = r.units
            /\ scriptRes' = r.res
            /\ UNCHANGED <<sfs, clientVars, installs,
                           fs, instRes, active, useSystemctl, mgrRes, mgrPrev, db,
                           reqRes, isWindows>>

UnitFetch ==
    \E u \in DOMAIN units, db_ok \in BOOLEAN :
        /\ units[u].pc = "start"
        /\ units' = [units EXCEPT ![u] = run_async_fetch(execs, units[u], db_ok)]
        /\ UNCHANGED <<sfs, clientVars, installs,
                       fs, instRes, active, useSystemctl, mgrRes, mgrPrev, db,
                       reqRes, isWindows, execs, scriptRes>>

UnitRun ==
    \E u \in DOMAIN units, o \in SubprocessOutcomes :
        /\ units[u].pc = "fetched"
        /\ units' = [units EXCEPT ![u] = run_async_run(sfs, isWindows, units[u], o)]
        /\ UNCHANGED <<sfs, clientVars, installs,
                       fs, instRes, active, useSystemctl, mgrRes, mgrPrev, db,
                       reqRes, isWindows, execs, scriptRes>>

UnitSave ==
    \E u \in DOMAIN units, db_ok \in BOOLEAN :
        LET r == run_async_save(execs, units[u], db_ok)
        IN  /\ units[u].pc = "ran"
            /\ execs' = r.rows
            /\ units' = [units EXCEPT ![u] = r.unit]
            /\ UNCHANGED <<sfs, clientVars, installs,
                           fs, instRes, active, useSystemctl, mgrRes, mgrPrev, db,
                           reqRes, isWindows, scriptRes>>

\* the file of the "async" script, job.sh in the working directory
JobFile == Append(ProjDir, <<"job", "sh">>)

\* what the script file is replaced by: a symbolic link to a file outside
\* the allow-listed directories
JobLink == Node("link", Append(EtcDir, <<"evil", "sh">>))

\* the app's files change outside the executor: an install or update of
\* the app, or its operator, replaces the script
ScriptFileChanges ==
    /\ sfs[JobFile] # JobLink
    /\ sfs' = [sfs EXCEPT ![JobFile] = JobLink]
    /\ UNCHANGED <<clientVars, installs, fs, instRes, active, useSystemctl,
                   mgrRes, mgrPrev, db, reqRes, scriptVars>>

NextExecute ==
    ApiExecuteScript \/ UnitFetch \/ UnitRun \/ UnitSave \/ ScriptFileChanges

SpecExecute == InitExecute /\ [][NextExecute]_vars

----------------------------------------------------------------------------
(* Claims about the execution records *)

\* the row a background thread was given
UnitRow(u) == execs[units[u].execution_id]

\* C13 (as stated): once the background thread of an async execution has
\* ended, its execution record is in a terminal status, however the script
\* run and the storage calls ended; and the threads create no record: there
\* is one async record per thread.
C13_AsyncEndsTerminal ==
    /\ \A u \in DOMAIN units :
           /\ units[u].execution_id \in DOMAIN execs
           /\ UnitFinished(units[u]) => UnitRow(u).status \in TerminalStatuses
    /\ Cardinality({i \in DOMAIN execs : execs[i].mode = "async"}) = Len(units)

\* the execute flow of row i has ended: the synchronous request has
\* returned, or the background thread has ended
FlowEnded(i) ==
    \/ execs[i].mode = "sync"
    \/ \E u \in DOMAIN units : units[u].execution_id = i /\ UnitFinished(units[u])

\* C14 (as stated): every execution record exists with status running
\* before its script is dispatched, is never updated more than once, is
\* running until that update and terminal after it, and has been updated
\* exactly once when its execute flow has ended.
C14_RecordMutatedExactlyOnce ==
    /\ \A u \in DOMAIN units : units[u].execution_id \in DOMAIN execs
    /\ \A i \in DOMAIN execs :
           /\ execs[i].writes <= 1
           /\ execs[i].writes = 0 => execs[i].status = "running"
           /\ execs[i].writes = 1 => execs[i].status \in TerminalStatuses
           /\ FlowEnded(i) => execs[i].writes = 1

\* C15: the status a background thread writes follows from how its script
\* run ended: timeout gives "timeout"; a non-zero exit gives "failed" with
\* that exit code; exit 0 gives "completed" with exit code 0; a spawn-level
\* OS error gives "failed" with the error text in stderr.  The request that
\* started the thread has returned success and raises nothing.
C15_AsyncStatusFollowsOutcome ==
    /\ \A u \in DOMAIN units :
           units[u].saved =>
               LET row == UnitRow(u)
                   o   == units[u].run
               IN  /\ o.kind \in {"exit", "TimeoutExpired", "OSError"}
                   /\ o.kind = "TimeoutExpired" =>
                          (row.status = "timeout" /\ row.exit_code = NoExitCode)
                   /\ (o.kind = "exit" /\ o.code # 0) =>
                          (row.status = "failed" /\ row.exit_code = o.code)
                   /\ (o.kind = "exit" /\ o.code = 0) =>
                          (row.status = "completed" /\ row.exit_code = 0)
                   /\ o.kind = "OSError" =>
                          (row.status = "failed" /\ row.stderr = ErrorMessage
                           /\ row.exit_code = NoExitCode)
    /\ (scriptRes.op = "api_execute_script" /\ scriptRes.started) =>
           (scriptRes.raised = "none" /\ scriptRes.http = 200 /\ scriptRes.success)

C15_Witness ==
    \E u \in DOMAIN units :
        /\ units[u].saved
        /\ units[u].run.kind = "TimeoutExpired"
        /\ UnitRow(u).status = "timeout"
        /\ UnitRow(u).stderr = TimeoutMessage(units[u].script.timeout)
        /\ scriptRes.started

\* what the run o of a script leaves in its record
OwnStatus(o) ==
    IF o.kind = "TimeoutExpired" THEN "timeout"
    ELSE IF o.kind = "exit" /\ o.code = 0 THEN "completed"
    ELSE "failed"

OwnOutput(o) ==
    IF o.kind # "exit" THEN None
    ELSE IF o.stdout.len > MAX_OUTPUT_SIZE
    THEN [o.stdout EXCEPT !.len = MAX_OUTPUT_SIZE + MarkerLen, !.truncated = TRUE]
    ELSE o.stdout

\* C16: under every interleaving of the background threads, no two threads
\* are given the same record, a record is written only by the thread that
\* was given its id (a record whose thread has not saved is untouched and
\* running), and the status, exit code and output of a written record are
\* those of its own thread's script run.
C16_ThreadOwnsItsRecord ==
    /\ \A u, v \in DOMAIN units :
           u # v => units[u].execution_id # units[v].execution_id
    /\ \A u \in DOMAIN units :
           /\ units[u].execution_id \in DOMAIN execs
           /\ UnitRow(u).mode = "async"
           /\ UnitRow(u).script_id = units[u].script.id
           /\ ~units[u].saved =>
                  (UnitRow(u).writes = 0 /\ UnitRow(u).status = "running"
                   /\ UnitRow(u).stdout = None)
           /\ units[u].saved =>
                  /\ UnitRow(u).writes = 1
                  /\ UnitRow(u).status = OwnStatus(units[u].run)
                  /\ UnitRow(u).exit_code = units[u].run.code
                  /\ UnitRow(u).stdout = OwnOutput(units[u].run)

C16_Witness ==
    /\ Len(units) >= 2
    /\ units[1].pc = "ran"
    /\ units[1].run.kind = "exit" /\ units[1].run.code = 0
    /\ units[2].saved
    /\ units[2].run.kind = "exit" /\ units[2].run.code = 7
    /\ execs[units[2].execution_id].status = "failed"
    /\ execs[units[2].execution_id].exit_code = 7
    /\ execs[units[1].execution_id].status = "running"

\* the stderr text of a row is one of the executor's error messages
HasErrorText(row) ==
    /\ Truthy(row.stderr)
    /\ row.stderr.kind \in {"error_message", "timeout_message", "validation_message"}

\* C29 (as stated): the interpreter is spawned only for a script that
\* passes validate_script at the moment of the spawn, in the background
\* thread as in the synchronous call, also when the script file changed
\* after the request validated it.
C29_SpawnOnlyValidScripts ==
    /\ scriptRes.spawned # <<>> => scriptRes.ok
    /\ \A u \in DOMAIN units :
           units[u].spawned # <<>> => units[u].valid_at_spawn

\* C30: every row of script_executions written by the execute flow is
\* consistent: completed implies exit code 0; timeout implies no exit code;
\* failed implies a non-zero exit code, or no exit code together with an
\* error text in stderr; the finish time is present exactly when the status
\* is not running.
C30_RecordsAreConsistent ==
    \A i \in DOMAIN execs :
        LET row == execs[i]
        IN  /\ row.status \in TerminalStatuses \cup {"running"}
            /\ row.status = "completed" => row.exit_code = 0
            /\ row.status = "timeout" => row.exit_code = NoExitCode
            /\ row.status = "failed" =>
                   \/ row.exit_code \notin {0, NoExitCode}
                   \/ row.exit_code = NoExitCode /\ HasErrorText(row)
            /\ (row.finished_at # "None") <=> (row.status # "running")

\* a synchronous run that could not be spawned and an asynchronous run that
\* timed out were both recorded
C30_Witness ==
    /\ Len(execs) = 2
    /\ execs[1].mode = "sync" /\ execs[1].status = "failed"
    /\ execs[1].exit_code = NoExitCode /\ execs[1].stderr = ErrorMessage
    /\ execs[2].mode = "async" /\ execs[2].status = "timeout"
    /\ execs[2].finished_at = "now"

----------------------------------------------------------------------------
(* Specification SpecClient: calls of GitHubClient against the release API *)

InitClient ==
    /\ relRes = NoRelRes
    /\ relPrev = NoRelPrev
    /\ IdleInstalls
    /\ IdleInstaller
    /\ IdleManager
    /\ IdleRoutes
    /\ IdleScripts
    /\ scriptRes = NoScriptRes

GetLatestRelease ==
    \E o \in UrlOutcomes, latest \in {RelMulti, RelFlat} :
        /\ Pinned(o.kind = "ok", latest, RelMulti)
        /\ relRes' = get_latest_release(o, latest)
        /\ relPrev' = RelPrev(relRes)
        /\ UNCHANGED <<fs, instRes, active, useSystemctl, mgrRes, mgrPrev, db,
                       reqRes, scriptVars, sfs, installs>>

GetReleases ==
    \E o \in UrlOutcomes :
        /\ relRes' = get_releases(o)
        /\ relPrev' = RelPrev(relRes)
        /\ UNCHANGED <<fs, instRes, active, useSystemctl, mgrRes, mgrPrev, db,
                       reqRes, scriptVars, sfs, installs>>

DownloadAsset ==
    \E o \in UrlOutcomes :
        /\ relRes' = download_asset(o)
        /\ relPrev' = RelPrev(relRes)
        /\ UNCHANGED <<fs, instRes, active, useSystemctl, mgrRes, mgrPrev, db,
                       reqRes, scriptVars, sfs, installs>>

NextClient == GetLatestRelease \/ GetReleases \/ DownloadAsset

SpecClient == InitClient /\ [][NextClient]_vars

----------------------------------------------------------------------------
(* Claims about GitHubClient *)

\* the failure class of an outcome of urlopen: the class of an HTTP status,
\* "timeout" for a timeout however it is raised, "transport" for every
\* other failure of the connection, "none" for a response
FailureClass(o) ==
    IF o.kind \in {"ok", "none"} THEN "none"
    ELSE IF o.kind = "HTTPError"
    THEN (IF o.code = "404" THEN "not_found"
          ELSE IF o.code = "401" THEN "unauthenticated"
          ELSE IF o.code = "403" THEN "forbidden"
          ELSE "other_http")
    ELSE IF o.kind = "TimeoutError" \/ o.reason = "timed out" THEN "timeout"
    ELSE "transport"

\* C21 (as stated): get_latest_release returns nothing exactly when the API
\* answers not-found for the latest-release request; every other failure
\* class (unauthenticated, forbidden, other HTTP status, transport failure,
\* timeout) leaves the call as the typed error and never as an empty result.
C21_NoneOnlyOnNotFound ==
    relRes.op = "get_latest_release" =>
        /\ relRes.returned_none <=> FailureClass(relRes.outcome) = "not_found"
        /\ FailureClass(relRes.outcome) \notin {"none", "not_found"} =>
               relRes.raised = "GitHubClientError"

\* C22 (as stated): every failing call of get_latest_release, get_releases
\* and download_asset raises the typed error, and two failures of different
\* classes (not-found, unauthenticated, forbidden, other HTTP, transport,
\* timeout) carry different messages, for API requests and for downloads.
C22_ClassesHaveDistinctMessages ==
    LET c == FailureClass(relRes.outcome)
        failed == c # "none" /\ ~relRes.returned_none
        cp == FailureClass(relPrev.outcome)
        failed_before == cp # "none" /\ relPrev.raised # "none"
    IN  /\ failed => relRes.raised = "GitHubClientError"
        /\ (failed /\ failed_before /\ c # cp) => relRes.message # relPrev.message

----------------------------------------------------------------------------
(* Specification SpecConcurrent: two install calls on the same app, run by *)
(* two request threads; AppInstaller holds no lock, so the calls interleave *)
(* at every file-system operation                                          *)

\* the request threads, and the release each installs
Callers == {1, 2}

CallRelease(c) == IF c = 1 THEN RelMulti ELSE RelFlat

\* the app both calls install
SharedApp == <<"app">>

\* One install call in progress.
\*   pc        "start": nothing done yet
\*             "backup": app_dir.exists() was true, backup_dir is set
\*             "download": the backup block is over
\*             "unpack": download_asset returned
\*             "commit": _extract_zip returned
\*             "rollback": an exception was raised inside the try
\*             "done": install returned release.tag_name
\*             "failed": install raised GitHubClientError
\*             "raised": another exception left install
\*   made      backup_dir is not None
\*   unpacked  the files this call wrote into app_dir
\*   value     the returned tag
\*   deleted_foreign   the rollback removed an app_dir holding files this
\*             call did not write
Call(c) ==
    [release |-> CallRelease(c), pc |-> "start", made |-> FALSE, unpacked |-> {},
     value |-> "", deleted_foreign |-> FALSE]

CallArchive(call) == find_zip_asset(call.release).archive

CallEnded(call) == call.pc \in {"done", "failed", "raised"}

InitConcurrent ==
    /\ installs = [c \in Callers |-> Call(c)]
    /\ fs \in [DirNames -> {Absent, Dir(OldTree), Dir(StaleTree)}]
    /\ fs[SharedApp] \in {Absent, Dir(OldTree)}
    /\ instRes = NoInstRes
    /\ IdleClient
    /\ IdleManager
    /\ IdleRoutes
    /\ IdleScripts
    /\ scriptRes = NoScriptRes

\* lines 253-257: app_dir.exists() decides whether backup_dir is set
CallCheck ==
    \E c \in Callers :
        /\ installs[c].pc = "start"
        /\ installs' = [installs EXCEPT ![c].made = BackupMade(fs, get_app_dir(SharedApp)),
                            ![c].pc = IF BackupMade(fs, get_app_dir(SharedApp))
                                      THEN "backup" ELSE "download"]
        /\ UNCHANGED <<fs, instRes, active, useSystemctl, mgrRes, mgrPrev, db, reqRes,
                       scriptVars, sfs, clientVars>>

\* lines 258-260: clear a stale backup and move app_dir there; the move
\* raises FileNotFoundError when app_dir is no longer there
CallBackup ==
    \E c \in Callers :
        LET app_dir    == get_app_dir(SharedApp)
            backup_dir == with_suffix_backup(app_dir)
            cleared    == IF exists(fs, backup_dir) THEN rmtree(fs, backup_dir) ELSE fs
        IN  /\ installs[c].pc = "backup"
            /\ fs' = shutil_move(cleared, app_dir, backup_dir)
            /\ installs' = [installs EXCEPT ![c].pc = IF move_raises(cleared, app_dir)
                                                       THEN "raised" ELSE "download"]
            /\ UNCHANGED <<instRes, active, useSystemctl, mgrRes, mgrPrev, db, reqRes,
                           scriptVars, sfs, clientVars>>

\* line 273: download_asset returns or raises
CallDownload ==
    \E c \in Callers, dl_ok \in BOOLEAN :
        /\ installs[c].pc = "download"
        /\ installs' = [installs EXCEPT ![c].pc = IF dl_ok THEN "unpack" ELSE "rollback"]
        /\ UNCHANGED <<fs, instRes, active, useSystemctl, mgrRes, mgrPrev, db, reqRes,
                       scriptVars, sfs, clientVars>>

\* line 276: _extract_zip completes, or raises after `done` of its steps
CallUnpack ==
    \E c \in Callers, done \in 1..MaxExtractSteps :
        LET archive == CallArchive(installs[c])
            app_dir == get_app_dir(SharedApp)
        IN  /\ installs[c].pc = "unpack"
            /\ done \in {1, ExtractSteps(archive)}
            /\ fs' = extract_zip(fs, archive, app_dir, done)
            /\ installs' = [installs EXCEPT
                              ![c].unpacked = ExtractMembers({}, archive, 1, done - 1),
                              ![c].pc = IF done = ExtractSteps(archive)
                                        THEN "commit" ELSE "rollback"]
            /\ UNCHANGED <<instRes, active, useSystemctl, mgrRes, mgrPrev, db, reqRes,
                           scriptVars, sfs, clientVars>>

\* lines 279-286: delete the backup this call made and return the tag
CallCommit ==
    \E c \in Callers :
        /\ installs[c].pc = "commit"
        /\ fs' = CommitStep(fs, get_app_dir(SharedApp), installs[c].made)
        /\ installs' = [installs EXCEPT ![c].pc = "done",
                                        ![c].value = installs[c].release.tag_name]
        /\ UNCHANGED <<instRes, active, useSystemctl, mgrRes, mgrPrev, db, reqRes,
                       scriptVars, sfs, clientVars>>

\* lines 288-294: restore from the backup this call made and raise
CallRollback ==
    \E c \in Callers :
        LET app_dir    == get_app_dir(SharedApp)
            backup_dir == with_suffix_backup(app_dir)
            removes    == /\ installs[c].made /\ exists(fs, backup_dir)
                          /\ exists(fs, app_dir)
        IN  /\ installs[c].pc = "rollback"
            /\ fs' = RollbackStep(fs, app_dir, installs[c].made)
            /\ installs' = [installs EXCEPT ![c].pc = "failed",
                              ![c].deleted_foreign =
                                  removes /\ fs[app_dir].files # installs[c].unpacked]
            /\ UNCHANGED <<instRes, active, useSystemctl, mgrRes, mgrPrev, db, reqRes,
                           scriptVars, sfs, clientVars>>

NextConcurrent ==
    CallCheck \/ CallBackup \/ CallDownload \/ CallUnpack \/ CallCommit \/ CallRollback

SpecConcurrent == InitConcurrent /\ [][NextConcurrent]_vars

----------------------------------------------------------------------------
(* Claims about concurrent installs *)

\* both calls have ended
Quiescent == \A c \in Callers : CallEnded(installs[c])

\* the calls that returned a tag
Succeeded == {c \in Callers : installs[c].pc = "done"}

\* C25 (as stated): when two install calls on the same app interleave, the
\* rollback of a failing call deletes only what that call unpacked, and once
\* both calls have ended the install directory holds the complete payload
\* of a call that reported success whenever one did: a reported success is
\* not undone, the directory is not the old payload and not a mix of two
\* payloads.
C25_ConcurrentInstallsKeepSuccess ==
    /\ \A c \in Callers : ~installs[c].deleted_foreign
    /\ (Quiescent /\ Succeeded # {}) =>
           \E c \in Succeeded :
               fs[get_app_dir(SharedApp)] = Dir(Payload(CallArchive(installs[c])))

====
